---- MODULE Spec2Model ----
(***************************************************************************)
(* State-machine model of the cairo-bootloader hint engine                 *)
(* (src/src/hints/execute_task_hints.rs, simple_bootloader_hints.rs,       *)
(* types.rs).  One action per hint; every action models the whole hint.    *)
(*                                                                         *)
(* Two specifications:                                                     *)
(*   Spec    - a run of the bootloader: the control program invokes the    *)
(*             hints task by task (its order is taken from spec.md 4.7,    *)
(*             the compiled control program is not part of src/).          *)
(*   SpecWRB - write_return_builtins_hint applied to every input drawn     *)
(*             from bounded sets (task kind, declared builtin list,        *)
(*             pre-execution record with an optional unwritten cell,       *)
(*             packed used pointers with an optional deviating entry).     *)
(***************************************************************************)
EXTENDS Integers, Sequences, FiniteSets, TLC

VARIABLES
    tasks,          \* SimpleBootloaderInput.tasks (scope var SIMPLE_BOOTLOADER_INPUT)
    memory,         \* vm memory: partial function <<segment, offset>> -> cell
    segment_sizes,  \* vm.segments.segment_sizes: finalized segments -> size
    num_segments,   \* vm.segments.num_segments()
    exec_scopes,    \* ExecutionScopes.data: stack of maps name -> value
    output_builtin, \* state of the OutputBuiltinRunner (base, pages, attributes)
    num_temp_segments, \* vm.segments.num_temp_segments()
    pc,             \* program point of the control program (next hint)
    cur,            \* index of the execute_task frame (tasks completed so far)
    result,         \* outcome of the last hint: [hook, res, hint_extension]; res # "Ok" aborts the run
    selected,       \* history: the task_id of every successful set_current_task
    storage_reads,  \* history: per task, the calls of CairoPie::read_zip_file
    inputs          \* arguments of make_bootloader_tasks: programs, program_inputs, pies

vars == <<tasks, memory, segment_sizes, num_segments, num_temp_segments, exec_scopes,
          output_builtin, pc, cur, result, selected, storage_reads, inputs>>

(***************************************************************************)
(* Bounds of the model.                                                    *)
(***************************************************************************)
\* Longest task list of a run.
MaxTasks == 2
\* Longest declared builtin list drawn for SpecWRB (all in-order sublists of
\* ALL_BUILTINS up to this length, plus the irregular lists of OddLists).
MaxDeclared == 2
\* Longest list of paths given to make_bootloader_tasks.
MaxPaths == 2

(***************************************************************************)
(* Builtins.                                                               *)
(***************************************************************************)
\* execute_task_hints.rs:208 ALL_BUILTINS, in the order used by the bootloader.
ALL_BUILTINS ==
    << "output", "pedersen", "range_check", "ecdsa", "bitwise", "ec_op",
       "keccak", "poseidon", "range_check96", "add_mod", "mul_mod" >>

Range(s) == { s[i] : i \in 1..Len(s) }

\* used_builtins.contains(builtin)
Contains(s, x) == \E i \in 1..Len(s) : s[i] = x

(***************************************************************************)
(* Memory cells and addresses.                                             *)
(***************************************************************************)
\* MaybeRelocatable::RelocatableValue
Rel(s, o) == [tag |-> "rel", seg |-> s, off |-> o]
\* MaybeRelocatable::Int
Felt(v) == [tag |-> "int", seg |-> 0, off |-> v]

\* Relocatable + usize
AddOff(a, n) == <<a[1], a[2] + n>>
\* address of the cell a relocatable value points to
AddrOf(c) == <<c.seg, c.off>>

\* vm.get_maybe
get_maybe(mem, a) == IF a \in DOMAIN mem THEN [res |-> "Ok", val |-> mem[a]]
                     ELSE [res |-> "None", val |-> Felt(0)]

\* vm.get_relocatable: unknown cell or integer cell is a memory error
get_relocatable(mem, a) ==
    IF a \notin DOMAIN mem THEN [res |-> "UnknownMemoryCell", val |-> Felt(0)]
    ELSE IF mem[a].tag # "rel" THEN [res |-> "ExpectedRelocatable", val |-> Felt(0)]
    ELSE [res |-> "Ok", val |-> mem[a]]

\* vm.get_integer
get_integer(mem, a) ==
    IF a \notin DOMAIN mem THEN [res |-> "UnknownMemoryCell", val |-> Felt(0)]
    ELSE IF mem[a].tag # "int" THEN [res |-> "ExpectedInteger", val |-> Felt(0)]
    ELSE [res |-> "Ok", val |-> mem[a]]

\* vm.insert_value: memory is write-once, rewriting the same value is accepted
insert_value(mem, a, v) ==
    IF a \in DOMAIN mem /\ mem[a] # v
    THEN [res |-> "InconsistentMemory", mem |-> mem]
    ELSE [res |-> "Ok", mem |-> (a :> v) @@ mem]

\* Relocatable - Relocatable
RelSub(x, y) ==
    IF x.seg # y.seg THEN [res |-> "Math", val |-> 0]
    ELSE IF x.off < y.off THEN [res |-> "Math", val |-> 0]
    ELSE [res |-> "Ok", val |-> x.off - y.off]

(***************************************************************************)
(* Frame of execute_task number k in the execution segment (segment 1):    *)
(* where the ids of the hints resolve to.                                  *)
(***************************************************************************)
\* Cells 0..FrameSize-1 of the segment are the frame of main.
FrameSize == 48
FrameBase(k) == (k + 1) * FrameSize
\* ids.pre_execution_builtin_ptrs.address_
ids_pre_execution_builtin_ptrs(k) == <<1, FrameBase(k)>>
\* ids.return_builtin_ptrs.address_
ids_return_builtin_ptrs(k) == <<1, FrameBase(k) + 11>>
\* ids.used_builtins_addr: the packed pointers the task left on the stack
ids_used_builtins_addr(k) == <<1, FrameBase(k) + 22>>
\* ids.program_data_ptr (a cell of the frame)
ids_program_data_ptr(k) == <<1, FrameBase(k) + 33>>
\* ids.n_tasks (a cell of the frame)
ids_n_tasks(k) == <<1, FrameBase(k) + 34>>
\* ids.output_ptr (a cell of the frame holding the pointer)
ids_output_ptr(k) == <<1, FrameBase(k) + 35>>
\* ids.output_ptr and ids.task_range_check_ptr of run_simple_bootloader (frame of main)
\* Registers of the vm when call_task runs in frame k: the hint is attached to
\* the instruction at the label call_task of the control program.
vm_get_pc(call_task_label) == Rel(0, call_task_label)
vm_get_ap(k) == Rel(1, FrameBase(k) + 40)
vm_get_fp(k) == Rel(1, FrameBase(k))
\* memory[ap] of the hint that stores use_poseidon
ap_use_poseidon(k) == <<1, FrameBase(k) + 36>>
ids_main_output_ptr == <<1, 0>>
ids_task_range_check_ptr == <<1, 1>>
\* segment of builtin number i (0-based) of ALL_BUILTINS
BuiltinSeg(i) == 2 + i

(***************************************************************************)
(* Tasks (types.rs).                                                       *)
(***************************************************************************)
\* RunProgramTask { program, program_input, use_poseidon }
RunProgramTask(program, use_poseidon) ==
    [kind |-> "RunProgram", program |-> program, use_poseidon |-> use_poseidon,
     builtin_segments |-> << >>, output_pages |-> << >>, readable |-> TRUE]

\* CairoPieTask { cairo_pie, use_poseidon }: metadata.program,
\* metadata.builtin_segments[b].size, additional_data output pages
CairoPieTask(program, sizes, pages, use_poseidon) ==
    [kind |-> "CairoPieTask", program |-> program, use_poseidon |-> use_poseidon,
     builtin_segments |-> sizes, output_pages |-> pages, readable |-> TRUE]

\* CairoPiePath { path, use_poseidon }: the artifact behind the path, and
\* whether CairoPie::read_zip_file can read it
CairoPiePath(program, sizes, pages, use_poseidon, readable) ==
    [kind |-> "CairoPiePath", program |-> program, use_poseidon |-> use_poseidon,
     builtin_segments |-> sizes, output_pages |-> pages, readable |-> readable]

\* Mutant of load_task: the CairoPieTask made from a path has no use_poseidon.
load_task_drop_flag(spec) ==
    IF spec.kind = "CairoPiePath"
    THEN IF spec.readable
         THEN [res |-> "Ok",
               task |-> CairoPieTask(spec.program, spec.builtin_segments, spec.output_pages, FALSE)]
         ELSE [res |-> "IoError", task |-> spec]
    ELSE [res |-> "Ok", task |-> spec]

\* TaskSpec::load_task
load_task(spec) ==
    IF spec.kind = "CairoPiePath"
    THEN IF spec.readable
         THEN [res |-> "Ok",
               task |-> CairoPieTask(spec.program, spec.builtin_segments,
                                     spec.output_pages, spec.use_poseidon)]
         ELSE [res |-> "IoError", task |-> spec]
    ELSE [res |-> "Ok", task |-> spec]

(***************************************************************************)
(* Task list construction (tasks.rs).                                      *)
(***************************************************************************)
\* Option<&[..]>
NoList == [some |-> FALSE, val |-> << >>]
SomeList(v) == [some |-> TRUE, val |-> v]
\* No call of make_bootloader_tasks is part of the run.
NoInputs == [programs |-> NoList, program_inputs |-> NoList, pies |-> NoList]

\* RunProgramTask { program, program_input, use_poseidon }, tasks.rs:34-38
RunProgramTaskWithInput(program, program_input, use_poseidon) ==
    ("program_input" :> program_input) @@ RunProgramTask(program, use_poseidon)

\* Program::from_file(program_file, Some("main")) on a file [readable, program]
Program_from_file(program_file) ==
    IF program_file.readable THEN [res |-> "Ok", program |-> program_file.program]
    ELSE [res |-> "Program", program |-> program_file.program]

\* CairoPie::read_zip_file(pie) on a file [readable, program, builtin_segments,
\* output_pages]
CairoPie_read_zip_file(pie) ==
    [res |-> IF pie.readable THEN "Ok" ELSE "Pie", cairo_pie |-> pie]

\* programs.iter().zip(program_inputs.iter()).try_for_each(..) from pair i on,
\* tasks.rs:30-42: the first program that cannot be read ends the loop
RECURSIVE push_program_tasks(_, _, _, _)
push_program_tasks(acc, programs, program_inputs, i) ==
    IF i > Len(programs) \/ i > Len(program_inputs) THEN [res |-> "Ok", tasks |-> acc]
    ELSE LET program == Program_from_file(programs[i])
         IN IF program.res # "Ok" THEN [res |-> program.res, tasks |-> acc]
            ELSE push_program_tasks(Append(acc, RunProgramTaskWithInput(program.program, program_inputs[i], FALSE)), programs, program_inputs, i + 1)

\* pies.iter().try_for_each(..) from pie i on, tasks.rs:44-55
RECURSIVE push_pie_tasks(_, _, _)
push_pie_tasks(acc, pies, i) ==
    IF i > Len(pies) THEN [res |-> "Ok", tasks |-> acc]
    ELSE LET r == CairoPie_read_zip_file(pies[i])
         IN IF r.res # "Ok" THEN [res |-> r.res, tasks |-> acc]
            ELSE push_pie_tasks(Append(acc, CairoPieTask(r.cairo_pie.program, r.cairo_pie.builtin_segments, r.cairo_pie.output_pages, FALSE)), pies, i + 1)

\* Mutant of make_bootloader_tasks_fn: the PIE tasks are pushed before the
\* program tasks.
make_bootloader_tasks_fn_pies_first(programs, program_inputs, pies) ==
    LET both == programs.some /\ program_inputs.some
    IN IF both /\ Len(programs.val) # Len(program_inputs.val)
       THEN [res |-> "Panic", tasks |-> << >>]
       ELSE LET q == IF pies.some THEN push_pie_tasks(<< >>, pies.val, 1)
                     ELSE [res |-> "Ok", tasks |-> << >>]
            IN IF q.res # "Ok" THEN [res |-> q.res, tasks |-> << >>]
               ELSE LET p == IF both THEN push_program_tasks(q.tasks, programs.val, program_inputs.val, 1)
                             ELSE q
                    IN IF p.res # "Ok" THEN [res |-> p.res, tasks |-> << >>] ELSE p

\* make_bootloader_tasks, tasks.rs:17-57: Result<Vec<TaskSpec>, _> as
\* [res, tasks]; an Err carries no task list, and assert_eq! on the two
\* lengths panics.
make_bootloader_tasks_fn(programs, program_inputs, pies) ==
    LET both == programs.some /\ program_inputs.some
    IN IF both /\ Len(programs.val) # Len(program_inputs.val)
       THEN [res |-> "Panic", tasks |-> << >>]
       ELSE LET p == IF both THEN push_program_tasks(<< >>, programs.val, program_inputs.val, 1)
                     ELSE [res |-> "Ok", tasks |-> << >>]
            IN IF p.res # "Ok" THEN [res |-> p.res, tasks |-> << >>]
               ELSE LET q == IF pies.some THEN push_pie_tasks(p.tasks, pies.val, 1)
                             ELSE p
                    IN IF q.res # "Ok" THEN [res |-> q.res, tasks |-> << >>] ELSE q

\* The call of make_bootloader_tasks; main hands the list to
\* cairo_run_bootloader_in_proof_mode (main.rs:157-160).
make_bootloader_tasks ==
    /\ pc = "make_bootloader_tasks"
    /\ LET r == make_bootloader_tasks_fn(inputs.programs, inputs.program_inputs, inputs.pies)
       IN /\ tasks' = r.tasks
          /\ result' = [hook |-> "make_bootloader_tasks", res |-> r.res,
                        hint_extension |-> << >>, consumed |-> 0, written |-> << >>]
          /\ pc' = IF r.res = "Ok" THEN "cairo_run_bootloader_in_proof_mode" ELSE pc
    /\ UNCHANGED <<memory, segment_sizes, num_segments, num_temp_segments, exec_scopes,
                   output_builtin, cur, selected, storage_reads, inputs>>

(***************************************************************************)
(* Execution scopes.                                                       *)
(***************************************************************************)
\* exec_scopes.get_local_variables(): the innermost scope
LocalVariables(scopes) == scopes[Len(scopes)]
InScope(scopes, name) == Len(scopes) > 0 /\ name \in DOMAIN LocalVariables(scopes)
ScopeGet(scopes, name) == LocalVariables(scopes)[name]
\* exec_scopes.insert_value
ScopeInsert(scopes, name, v) ==
    [scopes EXCEPT ![Len(scopes)] = (name :> v) @@ scopes[Len(scopes)]]
\* exec_scopes.enter_scope
EnterScope(scopes, locals) == Append(scopes, locals)
\* exec_scopes.exit_scope: the main scope cannot be exited
ExitScope(scopes) ==
    IF Len(scopes) <= 1 THEN [res |-> "ExitMainScopeError", scopes |-> scopes]
    ELSE [res |-> "Ok", scopes |-> SubSeq(scopes, 1, Len(scopes) - 1)]

\* get_task_from_exec_scopes: unwrap() of a missing TASK panics
get_task_from_exec_scopes(scopes) ==
    IF ~InScope(scopes, "task")
    THEN [res |-> "Panic", task |-> RunProgramTask([builtins |-> << >>, data |-> << >>, main |-> 0], FALSE)]
    ELSE LET l == load_task(ScopeGet(scopes, "task"))
         IN IF l.res = "Ok" THEN l ELSE [res |-> "CustomHint", task |-> l.task]

\* 0-based position of a builtin in ALL_BUILTINS (11 for any other builtin).
IndexOf(b) == IF Contains(ALL_BUILTINS, b)
              THEN (CHOOSE i \in 1..Len(ALL_BUILTINS) : ALL_BUILTINS[i] = b) - 1
              ELSE Len(ALL_BUILTINS)

\* State of a fresh OutputBuiltinRunner on segment BuiltinSeg(0).
OutputInit == [base |-> BuiltinSeg(0), pages |-> << >>, attributes |-> << >>]

(***************************************************************************)
(* Program hash and program loader.  program_hash.rs and program_loader.rs *)
(* are not part of src/: both are modelled after spec.md 4.1 and 4.2 and   *)
(* after their use in load_program_hint and validate_hash.                 *)
(***************************************************************************)
\* Modulus of the stand-in field the program hash is computed in.
FieldPrime == 251
\* Stand-in for the hash of two field elements.
hash2(a, b) == (31 * a + 17 * b + 7) % FieldPrime
\* A builtin name as a field element.
builtin_to_felt(b) == IndexOf(b) + 1

\* The header fields after data_length, the builtin list, then the code.
program_words(program, bootloader_version) ==
    <<bootloader_version, program.main, Len(program.builtins)>>
        \o [j \in 1..Len(program.builtins) |-> builtin_to_felt(program.builtins[j])]
        \o program.data

RECURSIVE hash_chain(_)
hash_chain(words) ==
    IF Len(words) = 0 THEN 0 ELSE hash2(words[1], hash_chain(Tail(words)))

\* compute_program_hash_chain(program, bootloader_version)
compute_program_hash_chain(program, bootloader_version) ==
    LET w == program_words(program, bootloader_version)
    IN hash_chain(<<Len(w)>> \o w)

\* ProgramLoader::load_program: writes the header and the code from
\* base_address on; returns the address of the code and the total size.
load_program(mem, base_address, program, bootloader_version, builtins_offset) ==
    LET header_size == builtins_offset + Len(program.builtins)
        words == <<header_size - 1 + Len(program.data)>>
                     \o program_words(program, bootloader_version)
        cells == [a \in { AddOff(AddrOf(base_address), j - 1) : j \in 1..Len(words) }
                    |-> Felt(words[a[2] - base_address.off + 1])]
    IN IF \E a \in DOMAIN cells : a \in DOMAIN mem /\ mem[a] # cells[a]
       THEN [res |-> "InconsistentMemory", mem |-> mem,
             code_address |-> base_address, size |-> 0]
       ELSE [res |-> "Ok", mem |-> cells @@ mem,
             code_address |-> Rel(base_address.seg, base_address.off + header_size),
             size |-> header_size + Len(program.data)]

(***************************************************************************)
(* Fact topologies.  fact_topologies.rs is not part of src/: modelled      *)
(* after spec.md 4.5 and test_append_fact_topologies.                      *)
(***************************************************************************)
\* The recorded memory of an artifact.  Its segments: 0 the program, 1 the
\* execution segment, 2 .. n + 1 one per declared builtin, n + 2 and n + 3 the
\* segments of the return frame pointer and of the return address.  The
\* execution segment starts with the initial frame (a pointer per builtin, the
\* return fp, the return pc), followed here by a pointer into the program and,
\* with a builtin, a pointer into the first builtin segment, whose first cell
\* holds a plain value.  The program cells are those load_program writes.
pie_memory(cairo_pie) ==
    LET n == Len(cairo_pie.program.builtins)
    IN [a \in { <<1, j>> : j \in 0..(n - 1) } |-> Rel(2 + a[2], 0)]
       @@ (<<1, n>> :> Rel(n + 2, 0)) @@ (<<1, n + 1>> :> Rel(n + 3, 0))
       @@ (<<1, n + 2>> :> Rel(0, cairo_pie.program.main + 1))
       @@ (IF n > 0 THEN (<<1, n + 3>> :> Rel(2, 1)) @@ (<<2, 0>> :> Felt(cairo_pie.program.data[1]))
           ELSE << >>)

\* Mutant of relocation_table: every builtin segment goes to the same new segment.
relocation_table_shared(cairo_pie, nseg, program_address, execution_segment_address, ret_fp, ret_pc) ==
    LET n == Len(cairo_pie.program.builtins)
    IN [s \in 0..(n + 3) |->
          CASE s = 0 -> program_address
            [] s = 1 -> execution_segment_address
            [] s = n + 2 -> ret_fp
            [] s = n + 3 -> ret_pc
            [] OTHER -> Rel(nseg, 0)]

\* Where each segment of the artifact goes: the program to program_address, the
\* execution segment to execution_segment_address, every builtin segment to a
\* newly allocated segment, the return segments to ret_fp and ret_pc.
relocation_table(cairo_pie, nseg, program_address, execution_segment_address, ret_fp, ret_pc) ==
    LET n == Len(cairo_pie.program.builtins)
    IN [s \in 0..(n + 3) |->
          CASE s = 0 -> program_address
            [] s = 1 -> execution_segment_address
            [] s = n + 2 -> ret_fp
            [] s = n + 3 -> ret_pc
            [] OTHER -> Rel(nseg + (s - 2), 0)]

\* An address of the artifact, moved to the new base of its segment.
relocate_address(table, a) == <<table[a[1]].seg, table[a[1]].off + a[2]>>
\* A cell value: a pointer moves with the segment it points into.
relocate_value(table, v) ==
    IF v.tag = "rel" THEN Rel(table[v.seg].seg, table[v.seg].off + v.off) ELSE v

\* load_cairo_pie(cairo_pie, vm, program_address, execution_segment_address,
\* ret_fp, ret_pc): [res, mem, nseg].  A pointer into a segment the artifact
\* does not have, or a cell that is already written with another value, is an
\* error.
load_cairo_pie(mem, nseg, cairo_pie, program_address, execution_segment_address, ret_fp, ret_pc) ==
    LET n_builtins == Len(cairo_pie.program.builtins)
        table == relocation_table(cairo_pie, nseg, program_address, execution_segment_address, ret_fp, ret_pc)
        cells == pie_memory(cairo_pie)
        dangling == \E c \in DOMAIN cells : cells[c].tag = "rel" /\ cells[c].seg \notin DOMAIN table
        placed == [a \in { relocate_address(table, c) : c \in DOMAIN cells } |->
                     relocate_value(table, cells[CHOOSE c \in DOMAIN cells : relocate_address(table, c) = a])]
    IN IF dangling THEN [res |-> "Memory", mem |-> mem, nseg |-> nseg]
       ELSE IF \E a \in DOMAIN placed : a \in DOMAIN mem /\ mem[a] # placed[a]
       THEN [res |-> "Memory", mem |-> mem, nseg |-> nseg]
       ELSE [res |-> "Ok", mem |-> placed @@ mem, nseg |-> nseg + n_builtins]

\* Option<OutputBuiltinState>
Some(state) == [some |-> TRUE, state |-> state]
None == [some |-> FALSE, state |-> OutputInit]

GPS_FACT_TOPOLOGY == "gps_fact_topology"
\* Tree structure of an output without internal structure.
DefaultTreeStructure == <<1, 0>>

\* Pages are numbered from 1, lie back to back and end at the end of the output.
pages_valid(output_size, pages) ==
    LET n == Cardinality(DOMAIN pages)
    IN /\ DOMAIN pages = 1..n
       /\ \A id \in 2..n : pages[id].start = pages[id - 1].start + pages[id - 1].size
       /\ n > 0 => /\ pages[1].start >= 0
                   /\ pages[n].start + pages[n].size = output_size

\* The header page (what precedes page 1), then the pages in order.
get_page_sizes(output_size, pages) ==
    IF Cardinality(DOMAIN pages) = 0 THEN <<output_size>>
    ELSE <<pages[1].start>> \o [id \in 1..Cardinality(DOMAIN pages) |-> pages[id].size]

\* get_task_fact_topology(output_size, task, output_builtin, output_runner_data):
\* [res, fact_topology, out], `out` the state the output builtin is left in.
get_task_fact_topology(output_size, task, out, output_runner_data) ==
    IF task.kind = "RunProgram"
    THEN IF ~output_runner_data.some \/ ~pages_valid(output_size, out.pages)
         THEN [res |-> "FactTopologyError", out |-> out,
               fact_topology |-> [tree_structure |-> << >>, page_sizes |-> << >>]]
         ELSE [res |-> "Ok", out |-> output_runner_data.state,
               fact_topology |->
                  [tree_structure |-> IF GPS_FACT_TOPOLOGY \in DOMAIN out.attributes
                                      THEN out.attributes[GPS_FACT_TOPOLOGY]
                                      ELSE DefaultTreeStructure,
                   page_sizes |-> get_page_sizes(output_size, out.pages)]]
    ELSE [res |-> "Ok", out |-> out,
          fact_topology |-> [tree_structure |-> DefaultTreeStructure,
                             page_sizes |-> <<output_size>>]]

(***************************************************************************)
(* Hints of simple_bootloader_hints.rs.                                    *)
(***************************************************************************)
Running == result.res = "Ok"
\* Every hint but call_task returns the empty hint extension (Ok(HashMap::new()));
\* consumed and written are those of the last write_return_builtins.
Res(hook, res) ==
    [hook |-> hook, res |-> res, hint_extension |-> << >>, consumed |-> 0, written |-> << >>]

\* Mutant of prepare_task_range_checks_fn: no temporary segment is added, the
\* pointer is the base of the last existing one.
prepare_task_range_checks_fn_no_new_segment(mem, scopes, ntemp) ==
    LET n_tasks == Len(ScopeGet(scopes, "simple_bootloader_input").tasks)
        output_ptr == get_relocatable(mem, ids_main_output_ptr)
        w == insert_value(mem, AddrOf(output_ptr.val), Felt(n_tasks))
        task_range_check_segment == Rel(-ntemp, 0)
        s1 == ScopeInsert(scopes, "task_range_check_ptr", task_range_check_segment)
        v == insert_value(w.mem, ids_task_range_check_ptr, task_range_check_segment)
    IN [res |-> "Ok", mem |-> v.mem, ntemp |-> ntemp,
        scopes |-> ScopeInsert(s1, "fact_topologies", << >>)]

\* prepare_task_range_checks, simple_bootloader_hints.rs:31-74
prepare_task_range_checks_fn(mem, scopes, ntemp) ==
    IF ~InScope(scopes, "simple_bootloader_input")
    THEN [res |-> "VariableNotInScopeError", mem |-> mem, scopes |-> scopes, ntemp |-> ntemp]
    ELSE LET n_tasks == Len(ScopeGet(scopes, "simple_bootloader_input").tasks)
             output_ptr == get_relocatable(mem, ids_main_output_ptr)
         IN IF output_ptr.res # "Ok"
            THEN [res |-> output_ptr.res, mem |-> mem, scopes |-> scopes, ntemp |-> ntemp]
            ELSE LET w == insert_value(mem, AddrOf(output_ptr.val), Felt(n_tasks))
                 IN IF w.res # "Ok"
                    THEN [res |-> w.res, mem |-> mem, scopes |-> scopes, ntemp |-> ntemp]
                    ELSE LET task_range_check_segment == Rel(-(ntemp + 1), 0)
                             s1 == ScopeInsert(scopes, "task_range_check_ptr", task_range_check_segment)
                             v == insert_value(w.mem, ids_task_range_check_ptr, task_range_check_segment)
                         IN IF v.res # "Ok"
                            THEN [res |-> v.res, mem |-> w.mem, scopes |-> s1, ntemp |-> ntemp + 1]
                            ELSE [res |-> "Ok", mem |-> v.mem, ntemp |-> ntemp + 1,
                                  scopes |-> ScopeInsert(s1, "fact_topologies", << >>)]

prepare_task_range_checks ==
    /\ UNCHANGED <<storage_reads, inputs>>
    /\ Running
    /\ pc = "prepare_task_range_checks"
    /\ LET r == prepare_task_range_checks_fn(memory, exec_scopes, num_temp_segments)
       IN /\ memory' = r.mem
          /\ exec_scopes' = r.scopes
          /\ num_temp_segments' = r.ntemp
          /\ result' = Res("prepare_task_range_checks", r.res)
          /\ pc' = IF r.res = "Ok" THEN "execute_tasks" ELSE pc
    /\ UNCHANGED <<tasks, segment_sizes, num_segments, output_builtin, cur, selected>>

\* TaskSpec::load_task of a CairoPiePath calls CairoPie::read_zip_file
\* (types.rs:58-61): the call is counted for the task the hint r loaded.
count_read(reads, scopes, r) ==
    IF r.loaded /\ ScopeGet(scopes, "simple_bootloader_input").tasks[r.task_id + 1].kind = "CairoPiePath"
    THEN [reads EXCEPT ![r.task_id + 1] = @ + 1]
    ELSE reads

\* Mutant of set_current_task_fn: the task is counted from the end of the list.
set_current_task_fn_from_end(mem, scopes, k) ==
    LET n_tasks == get_integer(mem, ids_n_tasks(k))
        input == ScopeGet(scopes, "simple_bootloader_input")
        task_id == n_tasks.val.off - 1
    IN [res |-> "Ok", task_id |-> task_id, loaded |-> TRUE,
        scopes |-> ScopeInsert(scopes, "task", load_task(input.tasks[task_id + 1]).task)]

\* Mutant of set_current_task_fn: the task index saturates at the ends of the
\* task list instead of leaving it.
set_current_task_fn_saturating(mem, scopes, k) ==
    LET input == ScopeGet(scopes, "simple_bootloader_input")
        n_tasks == get_integer(mem, ids_n_tasks(k))
        len == Len(input.tasks)
        task_id == IF n_tasks.val.off > len THEN 0
                   ELSE IF n_tasks.val.off = 0 THEN len - 1
                   ELSE len - n_tasks.val.off
        task == load_task(input.tasks[task_id + 1])
    IN IF task.res # "Ok"
       THEN [res |-> "CustomHint: Task not found", scopes |-> scopes,
             task_id |-> task_id, loaded |-> TRUE]
       ELSE [res |-> "Ok", task_id |-> task_id, loaded |-> TRUE,
             scopes |-> ScopeInsert(scopes, "task", task.task)]

\* set_current_task, simple_bootloader_hints.rs:150-181: [res, scopes, task_id,
\* loaded], `loaded` telling whether load_task was called
set_current_task_fn(mem, scopes, k) ==
    IF ~InScope(scopes, "simple_bootloader_input")
    THEN [res |-> "VariableNotInScopeError", scopes |-> scopes, task_id |-> 0, loaded |-> FALSE]
    ELSE LET input == ScopeGet(scopes, "simple_bootloader_input")
             n_tasks == get_integer(mem, ids_n_tasks(k))
         IN IF n_tasks.res # "Ok"
            THEN [res |-> n_tasks.res, scopes |-> scopes, task_id |-> 0, loaded |-> FALSE]
            \* tasks.len() - n_tasks on usize, then indexing: both panic out of range
            ELSE IF n_tasks.val.off > Len(input.tasks) \/ n_tasks.val.off = 0
            THEN [res |-> "Panic", scopes |-> scopes, task_id |-> 0, loaded |-> FALSE]
            ELSE LET task_id == Len(input.tasks) - n_tasks.val.off
                     task == load_task(input.tasks[task_id + 1])
                 IN IF task.res # "Ok"
                    THEN [res |-> "CustomHint: Task not found", scopes |-> scopes,
                          task_id |-> task_id, loaded |-> TRUE]
                    ELSE [res |-> "Ok", task_id |-> task_id, loaded |-> TRUE,
                          scopes |-> ScopeInsert(scopes, "task", task.task)]

set_current_task ==
    /\ Running
    /\ pc = "set_current_task"
    /\ LET r == set_current_task_fn(memory, exec_scopes, cur)
       IN /\ exec_scopes' = r.scopes
          /\ result' = Res("set_current_task", r.res)
          /\ selected' = IF r.res = "Ok" THEN Append(selected, r.task_id) ELSE selected
          /\ storage_reads' = count_read(storage_reads, exec_scopes, r)
          /\ UNCHANGED inputs
          /\ pc' = IF r.res = "Ok" THEN "set_ap_to_zero_or_one" ELSE pc
    /\ UNCHANGED <<tasks, memory, segment_sizes, num_segments, num_temp_segments,
                   output_builtin, cur>>

\* set_ap_to_zero_or_one, simple_bootloader_hints.rs:116-142: [res, mem, task_id, loaded]
set_ap_to_zero_or_one_fn(mem, scopes, k) ==
    IF ~InScope(scopes, "simple_bootloader_input")
    THEN [res |-> "VariableNotInScopeError", mem |-> mem, task_id |-> 0, loaded |-> FALSE]
    ELSE LET input == ScopeGet(scopes, "simple_bootloader_input")
             n_tasks == get_integer(mem, ids_n_tasks(k))
         IN IF n_tasks.res # "Ok"
            THEN [res |-> n_tasks.res, mem |-> mem, task_id |-> 0, loaded |-> FALSE]
            ELSE IF n_tasks.val.off > Len(input.tasks) \/ n_tasks.val.off = 0
            THEN [res |-> "Panic", mem |-> mem, task_id |-> 0, loaded |-> FALSE]
            ELSE LET task_id == Len(input.tasks) - n_tasks.val.off
                     task == load_task(input.tasks[task_id + 1])
                     use_poseidon == IF task.res = "Ok"
                                     THEN IF task.task.kind = "RunProgram"
                                          THEN task.task.use_poseidon ELSE FALSE
                                     ELSE FALSE
                     w == insert_value(mem, ap_use_poseidon(k), Felt(IF use_poseidon THEN 1 ELSE 0))
                 IN [res |-> w.res, mem |-> w.mem, task_id |-> task_id, loaded |-> TRUE]

set_ap_to_zero_or_one ==
    /\ Running
    /\ pc = "set_ap_to_zero_or_one"
    /\ LET r == set_ap_to_zero_or_one_fn(memory, exec_scopes, cur)
       IN /\ memory' = r.mem
          /\ result' = Res("set_ap_to_zero_or_one", r.res)
          /\ storage_reads' = count_read(storage_reads, exec_scopes, r)
          /\ UNCHANGED inputs
          /\ pc' = IF r.res = "Ok" THEN "allocate_program_data_segment" ELSE pc
    /\ UNCHANGED <<tasks, segment_sizes, num_segments, num_temp_segments, exec_scopes,
                   output_builtin, cur, selected>>

(***************************************************************************)
(* Builtin threader: write_return_builtins.                                *)
(***************************************************************************)
\* Mutant of check_cairo_pie_builtin_usage: the usage is not checked.
check_cairo_pie_builtin_usage_unchecked(mem, builtin_name, builtin_index, cairo_pie, return_builtins_addr, pre_execution_builtins_addr) ==
    "Ok"

\* check_cairo_pie_builtin_usage, execute_task_hints.rs:222-246
check_cairo_pie_builtin_usage(mem, builtin_name, builtin_index, cairo_pie, return_builtins_addr, pre_execution_builtins_addr) ==
    LET r == get_relocatable(mem, AddOff(return_builtins_addr, builtin_index))
        p == get_relocatable(mem, AddOff(pre_execution_builtins_addr, builtin_index))
    IN IF r.res # "Ok" THEN r.res
       ELSE IF p.res # "Ok" THEN p.res
       ELSE LET expected_builtin_size == RelSub(r.val, p.val)
            IN IF expected_builtin_size.res # "Ok" THEN expected_builtin_size.res
               \* builtin_segments[builtin_name]: indexing a missing key panics
               ELSE IF builtin_name \notin DOMAIN cairo_pie.builtin_segments THEN "Panic"
               ELSE IF cairo_pie.builtin_segments[builtin_name] # expected_builtin_size.val
                    THEN "AssertionFailed: Builtin usage is inconsistent with the CairoPie."
                    ELSE "Ok"

\* Mutant of wrb_used: the running offset of the packed entries is not advanced.
wrb_used_no_advance(mem, index, used_builtin_offset, return_builtins_addr, used_builtins_addr, pre_execution_builtins_addr, task) ==
    LET builtin_value == get_relocatable(mem, AddOff(used_builtins_addr, used_builtin_offset))
    IN IF builtin_value.res # "Ok"
       THEN [res |-> builtin_value.res, mem |-> mem, consumed |-> used_builtin_offset, written |-> << >>]
       ELSE LET ins == insert_value(mem, AddOff(return_builtins_addr, index), builtin_value.val)
            IN [res |-> ins.res, mem |-> ins.mem, consumed |-> used_builtin_offset,
                written |-> IF ins.res = "Ok" THEN <<AddOff(return_builtins_addr, index)>> ELSE << >>]

\* Loop body of write_return_builtins for a builtin of the declared list
\* (execute_task_hints.rs:262-277): [res, mem, consumed].
wrb_used(mem, index, used_builtin_offset, return_builtins_addr, used_builtins_addr, pre_execution_builtins_addr, task) ==
    LET builtin_value == get_relocatable(mem, AddOff(used_builtins_addr, used_builtin_offset))
    IN IF builtin_value.res # "Ok"
       THEN [res |-> builtin_value.res, mem |-> mem, consumed |-> used_builtin_offset, written |-> << >>]
       ELSE LET ins == insert_value(mem, AddOff(return_builtins_addr, index), builtin_value.val)
            IN IF ins.res # "Ok"
               THEN [res |-> ins.res, mem |-> mem, consumed |-> used_builtin_offset, written |-> << >>]
               ELSE [res |-> IF task.kind = "CairoPieTask"
                             THEN check_cairo_pie_builtin_usage(ins.mem, ALL_BUILTINS[index + 1], index, task, return_builtins_addr, pre_execution_builtins_addr)
                             ELSE "Ok",
                     mem |-> ins.mem,
                     consumed |-> used_builtin_offset + 1,
                     written |-> <<AddOff(return_builtins_addr, index)>>]

\* Mutant of wrb_unused: the pre-execution value is read at the running offset
\* of the packed entries instead of at the canonical index.
wrb_unused_by_offset(mem, index, used_builtin_offset, return_builtins_addr, pre_execution_builtins_addr) ==
    LET pre_execution_value == get_maybe(mem, AddOff(pre_execution_builtins_addr, used_builtin_offset))
    IN IF pre_execution_value.res # "Ok"
       THEN [res |-> "UnknownMemoryCell", mem |-> mem, consumed |-> used_builtin_offset, written |-> << >>]
       ELSE LET ins == insert_value(mem, AddOff(return_builtins_addr, index), pre_execution_value.val)
            IN [res |-> ins.res, mem |-> ins.mem, consumed |-> used_builtin_offset,
                written |-> IF ins.res = "Ok" THEN <<AddOff(return_builtins_addr, index)>> ELSE << >>]

\* Mutant of wrb_unused: an unwritten pre-execution cell is skipped silently.
wrb_unused_skip_unknown(mem, index, used_builtin_offset, return_builtins_addr, pre_execution_builtins_addr) ==
    LET pre_execution_value == get_maybe(mem, AddOff(pre_execution_builtins_addr, index))
    IN IF pre_execution_value.res # "Ok"
       THEN [res |-> "Ok", mem |-> mem, consumed |-> used_builtin_offset, written |-> << >>]
       ELSE LET ins == insert_value(mem, AddOff(return_builtins_addr, index), pre_execution_value.val)
            IN [res |-> ins.res, mem |-> ins.mem, consumed |-> used_builtin_offset,
                written |-> IF ins.res = "Ok" THEN <<AddOff(return_builtins_addr, index)>> ELSE << >>]

\* Mutant of wrb_unused: a builtin outside the declared list also advances the
\* running offset of the packed entries.
wrb_unused_advances(mem, index, used_builtin_offset, return_builtins_addr, pre_execution_builtins_addr) ==
    LET pre_execution_value == get_maybe(mem, AddOff(pre_execution_builtins_addr, index))
    IN IF pre_execution_value.res # "Ok"
       THEN [res |-> "UnknownMemoryCell", mem |-> mem, consumed |-> used_builtin_offset, written |-> << >>]
       ELSE LET ins == insert_value(mem, AddOff(return_builtins_addr, index), pre_execution_value.val)
            IN [res |-> ins.res, mem |-> ins.mem, consumed |-> used_builtin_offset + 1,
                written |-> IF ins.res = "Ok" THEN <<AddOff(return_builtins_addr, index)>> ELSE << >>]

\* Loop body for a builtin that is not in the declared list
\* (execute_task_hints.rs:278-286): its value is the same as before the call.
wrb_unused(mem, index, used_builtin_offset, return_builtins_addr, pre_execution_builtins_addr) ==
    LET pre_execution_builtin_addr == AddOff(pre_execution_builtins_addr, index)
        pre_execution_value == get_maybe(mem, pre_execution_builtin_addr)
    IN IF pre_execution_value.res # "Ok"
       THEN [res |-> "UnknownMemoryCell", mem |-> mem, consumed |-> used_builtin_offset, written |-> << >>]
       ELSE LET ins == insert_value(mem, AddOff(return_builtins_addr, index), pre_execution_value.val)
            IN [res |-> ins.res, mem |-> ins.mem, consumed |-> used_builtin_offset,
                written |-> IF ins.res = "Ok" THEN <<AddOff(return_builtins_addr, index)>> ELSE << >>]

\* The loop of write_return_builtins from canonical index `index` (0-based) on,
\* with `used_builtin_offset` packed entries consumed so far; the first failing
\* step ends it (the ? operator), keeping what was written.  `consumed` is the
\* final used_builtin_offset, `written` the addresses given to insert_value, in
\* the order of the calls.
RECURSIVE wrb_loop(_, _, _, _, _, _, _, _)
wrb_loop(mem, index, used_builtin_offset, return_builtins_addr, used_builtins, used_builtins_addr, pre_execution_builtins_addr, task) ==
    IF index = Len(ALL_BUILTINS)
    THEN [res |-> "Ok", mem |-> mem, consumed |-> used_builtin_offset, written |-> << >>]
    ELSE LET step == IF Contains(used_builtins, ALL_BUILTINS[index + 1])
                     THEN wrb_used(mem, index, used_builtin_offset, return_builtins_addr, used_builtins_addr, pre_execution_builtins_addr, task)
                     ELSE wrb_unused(mem, index, used_builtin_offset, return_builtins_addr, pre_execution_builtins_addr)
         IN IF step.res # "Ok" THEN step
            ELSE LET rest == wrb_loop(step.mem, index + 1, step.consumed, return_builtins_addr, used_builtins, used_builtins_addr, pre_execution_builtins_addr, task)
                 IN [rest EXCEPT !.written = step.written \o @]

\* Mutant of write_return_builtins: the loop starts at the second canonical
\* builtin.
write_return_builtins_from_one(mem, return_builtins_addr, used_builtins, used_builtins_addr, pre_execution_builtins_addr, task) ==
    wrb_loop(mem, 1, 0, return_builtins_addr, used_builtins, used_builtins_addr, pre_execution_builtins_addr, task)

\* write_return_builtins, execute_task_hints.rs:252-289
write_return_builtins(mem, return_builtins_addr, used_builtins, used_builtins_addr, pre_execution_builtins_addr, task) ==
    wrb_loop(mem, 0, 0, return_builtins_addr, used_builtins, used_builtins_addr, pre_execution_builtins_addr, task)

\* Mutant of write_return_builtins_hint_fn: a failing call leaves the memory as
\* it found it.
write_return_builtins_hint_fn_rollback(mem, scopes, k) ==
    LET t == get_task_from_exec_scopes(scopes)
        w == write_return_builtins(mem, ids_return_builtin_ptrs(k), t.task.program.builtins, ids_used_builtins_addr(k), ids_pre_execution_builtin_ptrs(k), t.task)
    IN IF w.res # "Ok" THEN [res |-> w.res, mem |-> mem, scopes |-> scopes, consumed |-> w.consumed, written |-> w.written]
       ELSE [res |-> "Ok", mem |-> w.mem,
             scopes |-> EnterScope(scopes, "n_selected_builtins" :> ScopeGet(scopes, "n_builtins")),
             consumed |-> w.consumed, written |-> w.written]

\* Mutant of write_return_builtins_hint_fn: n_selected_builtins is put into the
\* current scope, no scope is entered.
write_return_builtins_hint_fn_same_scope(mem, scopes, k) ==
    LET t == get_task_from_exec_scopes(scopes)
        w == write_return_builtins(mem, ids_return_builtin_ptrs(k), t.task.program.builtins, ids_used_builtins_addr(k), ids_pre_execution_builtin_ptrs(k), t.task)
    IN IF w.res # "Ok" THEN [res |-> w.res, mem |-> w.mem, scopes |-> scopes, consumed |-> w.consumed, written |-> w.written]
       ELSE [res |-> "Ok", mem |-> w.mem,
             scopes |-> ScopeInsert(scopes, "n_selected_builtins", ScopeGet(scopes, "n_builtins")),
             consumed |-> w.consumed, written |-> w.written]

\* write_return_builtins_hint as a function of (memory, scopes, frame):
\* execute_task_hints.rs:306-347
write_return_builtins_hint_fn(mem, scopes, k) ==
    LET t == get_task_from_exec_scopes(scopes)
    IN IF t.res # "Ok" THEN [res |-> t.res, mem |-> mem, scopes |-> scopes, consumed |-> 0, written |-> << >>]
       ELSE IF ~InScope(scopes, "n_builtins")
            THEN [res |-> "VariableNotInScopeError", mem |-> mem, scopes |-> scopes,
                  consumed |-> 0, written |-> << >>]
       ELSE LET n_builtins == ScopeGet(scopes, "n_builtins")
                builtins == t.task.program.builtins
                w == write_return_builtins(mem, ids_return_builtin_ptrs(k), builtins,
                                           ids_used_builtins_addr(k),
                                           ids_pre_execution_builtin_ptrs(k), t.task)
            IN IF w.res # "Ok"
               THEN [res |-> w.res, mem |-> w.mem, scopes |-> scopes,
                     consumed |-> w.consumed, written |-> w.written]
               ELSE [res |-> "Ok", mem |-> w.mem,
                     scopes |-> EnterScope(scopes, "n_selected_builtins" :> n_builtins),
                     consumed |-> w.consumed, written |-> w.written]

write_return_builtins_hint ==
    /\ UNCHANGED <<storage_reads, inputs>>
    /\ Running
    /\ pc = "write_return_builtins"
    /\ LET r == write_return_builtins_hint_fn(memory, exec_scopes, cur)
       IN /\ memory' = r.mem
          /\ exec_scopes' = r.scopes
          /\ result' = [Res("write_return_builtins_hint", r.res) EXCEPT
                           !.consumed = r.consumed, !.written = r.written]
          /\ pc' = IF r.res = "Ok" THEN "select_used_builtins" ELSE pc
    /\ UNCHANGED <<tasks, segment_sizes, num_segments, num_temp_segments,
                   output_builtin, cur, selected>>

(***************************************************************************)
(* The other hints of execute_task_hints.rs.                               *)
(***************************************************************************)
\* ids.program_header: program_data_ptr cast to a ProgramHeader pointer
ids_program_header(k) == ids_program_data_ptr(k)

\* Mutant of allocate_program_data_segment_fn: the last existing segment is
\* handed out again.
allocate_program_data_segment_fn_reuse(mem, scopes, nseg, k) ==
    LET program_data_segment == Rel(nseg - 1, 0)
        s1 == ScopeInsert(scopes, "program_data_base", program_data_segment)
        w == insert_value(mem, ids_program_data_ptr(k), program_data_segment)
    IN [res |-> w.res, mem |-> w.mem, scopes |-> s1, nseg |-> nseg]

\* allocate_program_data_segment, execute_task_hints.rs:63-80
allocate_program_data_segment_fn(mem, scopes, nseg, k) ==
    LET program_data_segment == Rel(nseg, 0)
        s1 == ScopeInsert(scopes, "program_data_base", program_data_segment)
        w == insert_value(mem, ids_program_data_ptr(k), program_data_segment)
    IN [res |-> w.res, mem |-> w.mem, scopes |-> s1, nseg |-> nseg + 1]

allocate_program_data_segment ==
    /\ UNCHANGED <<storage_reads, inputs>>
    /\ Running
    /\ pc = "allocate_program_data_segment"
    /\ LET r == allocate_program_data_segment_fn(memory, exec_scopes, num_segments, cur)
       IN /\ memory' = r.mem
          /\ exec_scopes' = r.scopes
          /\ num_segments' = r.nseg
          /\ result' = Res("allocate_program_data_segment", r.res)
          /\ pc' = IF r.res = "Ok" THEN "load_program" ELSE pc
    /\ UNCHANGED <<tasks, segment_sizes, num_temp_segments, output_builtin, cur, selected>>

\* Offset of the builtin_list field in ProgramHeader.
builtins_offset == 4

\* Mutant of load_program_hint_fn: the segment is finalized with the size of
\* the code alone.
load_program_hint_fn_code_size(mem, scopes, sizes, k) ==
    LET program_data_base == ScopeGet(scopes, "program_data_base")
        task == get_task_from_exec_scopes(scopes)
        program_header_ptr == get_relocatable(mem, ids_program_header(k))
        loaded_program == load_program(mem, program_header_ptr.val, task.task.program, 0, builtins_offset)
    IN [res |-> "Ok", mem |-> loaded_program.mem,
        sizes |-> (program_data_base.seg :> Len(task.task.program.data)) @@ sizes,
        scopes |-> ScopeInsert(scopes, "program_address", loaded_program.code_address)]

\* load_program_hint, execute_task_hints.rs:96-125: [res, mem, sizes, scopes]
load_program_hint_fn(mem, scopes, sizes, k) ==
    IF ~InScope(scopes, "program_data_base")
    THEN [res |-> "VariableNotInScopeError", mem |-> mem, sizes |-> sizes, scopes |-> scopes]
    ELSE LET program_data_base == ScopeGet(scopes, "program_data_base")
             task == get_task_from_exec_scopes(scopes)
             program_header_ptr == get_relocatable(mem, ids_program_header(k))
         IN IF task.res # "Ok"
            THEN [res |-> task.res, mem |-> mem, sizes |-> sizes, scopes |-> scopes]
            ELSE IF program_header_ptr.res # "Ok"
            THEN [res |-> program_header_ptr.res, mem |-> mem, sizes |-> sizes, scopes |-> scopes]
            ELSE LET bootloader_version == 0
                     loaded_program == load_program(mem, program_header_ptr.val, task.task.program, bootloader_version, builtins_offset)
                 IN IF loaded_program.res # "Ok"
                    THEN [res |-> loaded_program.res, mem |-> mem, sizes |-> sizes, scopes |-> scopes]
                    ELSE [res |-> "Ok", mem |-> loaded_program.mem,
                          \* vm.segments.finalize(Some(size), program_data_base.segment_index)
                          sizes |-> (program_data_base.seg :> loaded_program.size) @@ sizes,
                          scopes |-> ScopeInsert(scopes, "program_address", loaded_program.code_address)]

load_program_hint ==
    /\ UNCHANGED <<storage_reads, inputs>>
    /\ Running
    /\ pc = "load_program"
    /\ LET r == load_program_hint_fn(memory, exec_scopes, segment_sizes, cur)
       IN /\ memory' = r.mem
          /\ exec_scopes' = r.scopes
          /\ segment_sizes' = r.sizes
          /\ result' = Res("load_program_hint", r.res)
          /\ pc' = IF r.res = "Ok" THEN "execute_task_header" ELSE pc
    /\ UNCHANGED <<tasks, num_segments, num_temp_segments, output_builtin, cur, selected>>

AssertionFailedHash == "AssertionFailed: Computed hash does not match input"

\* Mutant of validate_hash_fn: the hash is read at output_ptr itself.
validate_hash_fn_at_output_ptr(mem, scopes, k) ==
    LET task == get_task_from_exec_scopes(scopes)
        output_ptr == get_relocatable(mem, ids_output_ptr(k))
        program_hash == get_integer(mem, AddrOf(output_ptr.val))
    IN IF program_hash.res # "Ok" THEN program_hash.res
       ELSE IF program_hash.val # Felt(compute_program_hash_chain(task.task.program, 0))
            THEN AssertionFailedHash
            ELSE "Ok"

\* validate_hash, execute_task_hints.rs:176-205: the result only, the hint
\* writes nothing
validate_hash_fn(mem, scopes, k) ==
    LET task == get_task_from_exec_scopes(scopes)
        output_ptr == get_relocatable(mem, ids_output_ptr(k))
    IN IF task.res # "Ok" THEN task.res
       ELSE IF output_ptr.res # "Ok" THEN output_ptr.res
       ELSE LET program_hash_ptr == AddOff(AddrOf(output_ptr.val), 1)
                program_hash == get_integer(mem, program_hash_ptr)
            IN IF program_hash.res # "Ok" THEN program_hash.res
               ELSE LET computed_program_hash == compute_program_hash_chain(task.task.program, 0)
                    IN IF program_hash.val # Felt(computed_program_hash)
                       THEN AssertionFailedHash
                       ELSE "Ok"

validate_hash ==
    /\ UNCHANGED <<storage_reads, inputs>>
    /\ Running
    /\ pc = "validate_hash"
    /\ LET r == validate_hash_fn(memory, exec_scopes, cur)
       IN /\ result' = Res("validate_hash", r)
          /\ pc' = IF r = "Ok" THEN "call_task" ELSE pc
    /\ UNCHANGED <<tasks, memory, segment_sizes, num_segments, num_temp_segments,
                   exec_scopes, output_builtin, cur, selected>>

\* Mutant of prepare_output_runner: the state is captured and reset for every
\* kind of task.
prepare_output_runner_any_task(task, out, output_ptr) ==
    [out |-> [base |-> output_ptr.seg, pages |-> << >>, attributes |-> << >>],
     data |-> Some(out)]

\* util::prepare_output_runner, execute_task_hints.rs:564-581: [out, data]
prepare_output_runner(task, out, output_ptr) ==
    IF task.kind = "RunProgram"
    THEN [out |-> [base |-> output_ptr.seg, pages |-> << >>, attributes |-> << >>],
          data |-> Some(out)]
    ELSE [out |-> out, data |-> None]

\* hint_processor.compile_hint: the compiled form of a hint of the task program
compile_hint(code) == [compiled |-> code]

\* Mutant of vm_load_program: a hint pc is moved to the segment of the program
\* address, its offset kept.
vm_load_program_segment_only(scopes) ==
    LET task_program_address == ScopeGet(scopes, "program_address")
        task_program == get_task_from_exec_scopes(scopes).task.program
    IN [res |-> "Ok",
        hint_extension |->
           [new_hint_pc \in { <<hint_pc[1] + task_program_address.seg, hint_pc[2]>> :
                                 hint_pc \in DOMAIN task_program.hints_ranges } |->
              LET hint_pc == <<new_hint_pc[1] - task_program_address.seg, new_hint_pc[2]>>
                  sl == task_program.hints_ranges[hint_pc]
              IN [hints |-> [j \in 1..sl[2] |-> compile_hint(task_program.hints[sl[1] + j])],
                  constants |-> task_program.constants]]]

\* vm_load_program, execute_task_hints.rs:496-544: [res, hint_extension], the
\* extension a map new_hint_pc -> ExtensionData { hints, constants }
vm_load_program(scopes) ==
    IF ~InScope(scopes, "program_address") THEN [res |-> "Panic", hint_extension |-> << >>]
    ELSE LET task_program_address == ScopeGet(scopes, "program_address")
             task == get_task_from_exec_scopes(scopes)
             task_program == task.task.program
         IN IF task.res # "Ok" THEN [res |-> task.res, hint_extension |-> << >>]
            ELSE [res |-> "Ok",
                  hint_extension |->
                     [new_hint_pc \in { <<hint_pc[1] + task_program_address.seg,
                                          hint_pc[2] + task_program_address.off>> :
                                           hint_pc \in DOMAIN task_program.hints_ranges } |->
                        LET hint_pc == <<new_hint_pc[1] - task_program_address.seg,
                                         new_hint_pc[2] - task_program_address.off>>
                            sl == task_program.hints_ranges[hint_pc]
                        IN [hints |-> [j \in 1..sl[2] |-> compile_hint(task_program.hints[sl[1] + j])],
                            constants |-> task_program.constants]]]

\* get_bootloader_identifiers, execute_task_hints.rs:349-365: the identifiers
\* are looked up in the main scope (exec_scopes.data[0]).
get_bootloader_identifiers(scopes) ==
    IF "bootloader_program_identifiers" \in DOMAIN scopes[1]
    THEN [res |-> "Ok", val |-> scopes[1]["bootloader_program_identifiers"]]
    ELSE [res |-> "VariableNotInScopeError", val |-> << >>]

\* get_identifier, execute_task_hints.rs:367-380: the pc of a label
get_identifier(identifiers, name) ==
    IF name \in DOMAIN identifiers THEN [res |-> "Ok", val |-> identifiers[name]]
    ELSE [res |-> "VariableNotInScopeError", val |-> 0]

\* Offset of the instruction call_task is attached to: the label call_task of
\* the control program in use.
call_task_pc(scopes) == get_identifier(get_bootloader_identifiers(scopes).val, "call_task").val

\* Mutant of call_task_fn: N_BUILTINS is stored for a RunProgramTask only.
call_task_fn_n_builtins_run_only(mem, scopes, out, nseg, k) ==
    LET task == get_task_from_exec_scopes(scopes)
        n_builtins == Len(task.task.program.builtins)
        output_ptr == get_relocatable(mem, AddOff(ids_pre_execution_builtin_ptrs(k), 0))
        p == prepare_output_runner(task.task, out, output_ptr.val)
        s1 == IF task.task.kind = "RunProgram" \/ ~InScope(scopes, "n_builtins")
              THEN ScopeInsert(scopes, "n_builtins", n_builtins) ELSE scopes
        s2 == ScopeInsert(s1, "output_runner_data", p.data)
    IN [res |-> "Ok", out |-> p.out, mem |-> mem, nseg |-> nseg,
        hint_extension |-> IF task.task.kind = "RunProgram"
                           THEN vm_load_program(scopes).hint_extension ELSE << >>,
        scopes |-> EnterScope(s2, IF task.task.kind = "RunProgram"
                                  THEN ("program_input" :> "program_input") @@ ("WITH_BOOTLOADER" :> TRUE)
                                  ELSE << >>)]

\* What call_task returns on an error.
call_task_err(res, mem, scopes, out, nseg) ==
    [res |-> res, scopes |-> scopes, out |-> out, mem |-> mem, nseg |-> nseg,
     hint_extension |-> << >>]

\* call_task, execute_task_hints.rs:419-494: [res, scopes, out, mem, hint_extension]
call_task_fn(mem, scopes, out, nseg, k) ==
    LET task == get_task_from_exec_scopes(scopes)
    IN IF task.res # "Ok" THEN call_task_err(task.res, mem, scopes, out, nseg)
       \* vm_load_program: exec_scopes.get(PROGRAM_ADDRESS).unwrap()
       ELSE IF task.task.kind = "RunProgram" /\ vm_load_program(scopes).res # "Ok"
       THEN call_task_err(vm_load_program(scopes).res, mem, scopes, out, nseg)
       ELSE IF task.task.kind = "CairoPieTask" /\ ~InScope(scopes, "program_address")
       THEN call_task_err("VariableNotInScopeError", mem, scopes, out, nseg)
       ELSE LET n_builtins == Len(task.task.program.builtins)
                new_task_locals == IF task.task.kind = "RunProgram"
                                   THEN ("program_input" :> "program_input") @@ ("WITH_BOOTLOADER" :> TRUE)
                                   ELSE << >>
                \* ret_pc = 279 - 278 + pc = 1 + pc
                pc_reg == vm_get_pc(call_task_pc(scopes))
                ret_pc == Rel(pc_reg.seg, pc_reg.off + 1)
                ap == vm_get_ap(k)
                placed == IF task.task.kind = "CairoPieTask"
                          THEN IF ap.off < n_builtins THEN [res |-> "Math", mem |-> mem, nseg |-> nseg]
                               ELSE load_cairo_pie(mem, nseg, task.task, ScopeGet(scopes, "program_address"),
                                                   Rel(ap.seg, ap.off - n_builtins), vm_get_fp(k), ret_pc)
                          ELSE [res |-> "Ok", mem |-> mem, nseg |-> nseg]
                output_ptr == get_relocatable(placed.mem, AddOff(ids_pre_execution_builtin_ptrs(k), 0))
                hint_extension == IF task.task.kind = "RunProgram"
                                  THEN vm_load_program(scopes).hint_extension ELSE << >>
            IN IF placed.res # "Ok"
               THEN call_task_err(placed.res, mem, scopes, out, nseg)
               ELSE IF output_ptr.res # "Ok"
               THEN call_task_err(output_ptr.res, placed.mem, scopes, out, placed.nseg)
               ELSE LET p == prepare_output_runner(task.task, out, output_ptr.val)
                        s1 == ScopeInsert(scopes, "n_builtins", n_builtins)
                        s2 == ScopeInsert(s1, "output_runner_data", p.data)
                    IN [res |-> "Ok", out |-> p.out, mem |-> placed.mem, nseg |-> placed.nseg,
                        hint_extension |-> hint_extension,
                        scopes |-> EnterScope(s2, new_task_locals)]

call_task ==
    /\ UNCHANGED <<storage_reads, inputs>>
    /\ Running
    /\ pc = "call_task"
    /\ LET r == call_task_fn(memory, exec_scopes, output_builtin, num_segments, cur)
       IN /\ exec_scopes' = r.scopes
          /\ output_builtin' = r.out
          /\ memory' = r.mem
          /\ num_segments' = r.nseg
          /\ result' = [Res("call_task", r.res) EXCEPT !.hint_extension = r.hint_extension]
          /\ pc' = IF r.res = "Ok" THEN "run_task" ELSE pc
    /\ UNCHANGED <<tasks, segment_sizes, num_temp_segments, cur, selected>>

\* exit_scope_with_comments, execute_task_hints.rs:546-553
exit_scope_with_comments ==
    /\ UNCHANGED <<storage_reads, inputs>>
    /\ Running
    /\ pc = "exit_scope_with_comments"
    /\ LET r == ExitScope(exec_scopes)
       IN /\ exec_scopes' = r.scopes
          /\ result' = Res("exit_scope_with_comments", r.res)
          /\ pc' = IF r.res = "Ok" THEN "write_return_builtins" ELSE pc
    /\ UNCHANGED <<tasks, memory, segment_sizes, num_segments, num_temp_segments,
                   output_builtin, cur, selected>>

\* Mutant of append_output_size: the size is the offset of the end pointer.
append_output_size_from_base(mem, pre_execution_builtin_ptrs_addr, return_builtin_ptrs_addr) ==
    LET output_start == get_relocatable(mem, pre_execution_builtin_ptrs_addr)
        output_end == get_relocatable(mem, return_builtin_ptrs_addr)
    IN IF output_start.res # "Ok" THEN [res |-> output_start.res, val |-> 0]
       ELSE IF output_end.res # "Ok" THEN [res |-> output_end.res, val |-> 0]
       ELSE RelSub(output_end.val, Rel(output_start.val.seg, 0))

\* output_size of append_fact_topologies, execute_task_hints.rs:152-155:
\* the output field is the first one of both records
append_output_size(mem, pre_execution_builtin_ptrs_addr, return_builtin_ptrs_addr) ==
    LET output_start == get_relocatable(mem, pre_execution_builtin_ptrs_addr)
        output_end == get_relocatable(mem, return_builtin_ptrs_addr)
    IN IF output_start.res # "Ok" THEN [res |-> output_start.res, val |-> 0]
       ELSE IF output_end.res # "Ok" THEN [res |-> output_end.res, val |-> 0]
       ELSE RelSub(output_end.val, output_start.val)

\* Mutant of append_fact_topologies_fn: the list is set to the new topology alone.
append_fact_topologies_fn_replace(mem, scopes, out, k) ==
    LET task == get_task_from_exec_scopes(scopes)
        output_size == append_output_size(mem, ids_pre_execution_builtin_ptrs(k), ids_return_builtin_ptrs(k))
        t == get_task_fact_topology(output_size.val, task.task, out, ScopeGet(scopes, "output_runner_data"))
    IN IF t.res # "Ok" THEN [res |-> t.res, scopes |-> scopes, out |-> out]
       ELSE [res |-> "Ok", out |-> t.out,
             scopes |-> ScopeInsert(scopes, "fact_topologies", <<t.fact_topology>>)]

\* Mutant of append_fact_topologies_fn: the new topology is put first.
append_fact_topologies_fn_push_front(mem, scopes, out, k) ==
    LET task == get_task_from_exec_scopes(scopes)
        output_size == append_output_size(mem, ids_pre_execution_builtin_ptrs(k), ids_return_builtin_ptrs(k))
        t == get_task_fact_topology(output_size.val, task.task, out, ScopeGet(scopes, "output_runner_data"))
    IN IF t.res # "Ok" THEN [res |-> t.res, scopes |-> scopes, out |-> out]
       ELSE [res |-> "Ok", out |-> t.out,
             scopes |-> ScopeInsert(scopes, "fact_topologies",
                                    <<t.fact_topology>> \o ScopeGet(scopes, "fact_topologies"))]

\* Mutant of append_fact_topologies_fn: the topology is computed on a copy of
\* the output builtin, which itself stays as the task left it.
append_fact_topologies_fn_keep_output(mem, scopes, out, k) ==
    LET task == get_task_from_exec_scopes(scopes)
        output_size == append_output_size(mem, ids_pre_execution_builtin_ptrs(k), ids_return_builtin_ptrs(k))
        t == get_task_fact_topology(output_size.val, task.task, out, ScopeGet(scopes, "output_runner_data"))
    IN IF t.res # "Ok" THEN [res |-> t.res, scopes |-> scopes, out |-> out]
       ELSE [res |-> "Ok", out |-> out,
             scopes |-> ScopeInsert(scopes, "fact_topologies",
                                    Append(ScopeGet(scopes, "fact_topologies"), t.fact_topology))]

\* append_fact_topologies, execute_task_hints.rs:139-167: [res, scopes, out]
append_fact_topologies_fn(mem, scopes, out, k) ==
    LET task == get_task_from_exec_scopes(scopes)
    IN IF task.res # "Ok" THEN [res |-> task.res, scopes |-> scopes, out |-> out]
       ELSE IF ~InScope(scopes, "output_runner_data")
       THEN [res |-> "VariableNotInScopeError", scopes |-> scopes, out |-> out]
       ELSE LET output_runner_data == ScopeGet(scopes, "output_runner_data")
                output_size == append_output_size(mem, ids_pre_execution_builtin_ptrs(k), ids_return_builtin_ptrs(k))
            IN IF output_size.res # "Ok"
               THEN [res |-> output_size.res, scopes |-> scopes, out |-> out]
               ELSE LET t == get_task_fact_topology(output_size.val, task.task, out, output_runner_data)
                    IN IF t.res # "Ok"
                       THEN [res |-> t.res, scopes |-> scopes, out |-> t.out]
                       ELSE IF ~InScope(scopes, "fact_topologies")
                       THEN [res |-> "VariableNotInScopeError", scopes |-> scopes, out |-> t.out]
                       ELSE [res |-> "Ok", out |-> t.out,
                             scopes |-> ScopeInsert(scopes, "fact_topologies",
                                           Append(ScopeGet(scopes, "fact_topologies"), t.fact_topology))]

append_fact_topologies ==
    /\ UNCHANGED <<storage_reads, inputs>>
    /\ Running
    /\ pc = "append_fact_topologies"
    /\ LET r == append_fact_topologies_fn(memory, exec_scopes, output_builtin, cur)
       IN /\ exec_scopes' = r.scopes
          /\ output_builtin' = r.out
          /\ result' = Res("append_fact_topologies", r.res)
          /\ pc' = IF r.res = "Ok" THEN "execute_task_return" ELSE pc
    /\ UNCHANGED <<tasks, memory, segment_sizes, num_segments, num_temp_segments,
                   cur, selected>>

(***************************************************************************)
(* SpecWRB: write_return_builtins_hint on inputs drawn from bounded sets.  *)
(***************************************************************************)
\* Usage size of builtin number i by the programs of the model
\* (output: 5 cells, the others 0, 1 or 2).
Usage(i) == IF i = 0 THEN 5 ELSE i % 3

\* Offset of the pre-execution pointer of builtin number i in the first frame
\* (the output pointer of the first task is past n_tasks, the output size and
\* the program hash).
PreOff(i) == 3 + i

Slots == 0..(Len(ALL_BUILTINS) - 1)

\* In-order sublists of ALL_BUILTINS with at most MaxDeclared entries.
InOrderLists ==
    LET idx == UNION { [1..n -> 1..Len(ALL_BUILTINS)] : n \in 0..MaxDeclared }
    IN { [j \in 1..Len(s) |-> ALL_BUILTINS[s[j]]] :
           s \in { t \in idx : \A a, b \in 1..Len(t) : a < b => t[a] < t[b] } }

\* Declared lists that are not in-order sublists: out of canonical order,
\* a repeated builtin, a builtin outside ALL_BUILTINS.
OddLists == { <<"bitwise", "range_check">>, <<"output", "output">>,
              <<"range_check", "segment_arena">> }

DeclaredLists == InOrderLists \cup OddLists

\* How one packed entry may deviate from pre pointer + usage.
DevKinds == {"plus", "minus", "seg", "int", "none"}

\* metadata.builtin_segments of a PIE that ran a program declaring B;
\* `missing` drops the entry of the first declared builtin.
PieSizes(B, missing) ==
    [b \in Range(B) \ (IF missing THEN {B[1]} ELSE {}) |-> Usage(IndexOf(b))]

\* The pre-execution record of frame k with the cell of slot `hole` unwritten
\* (hole = -1: all written), slot i holding the pointer pre[i].
PreRecord(k, pre, hole) ==
    [a \in { AddOff(ids_pre_execution_builtin_ptrs(k), i) : i \in Slots \ {hole} }
       |-> pre[a[2] - FrameBase(k)]]

\* One packed used pointer: the pointer p of builtin b moved by its usage, or a
\* deviation from it ("big": a task that writes ten output cells).
PackEntry(b, p, dev) ==
    LET i == IndexOf(b)
    IN CASE dev = "ok"    -> Rel(p.seg, p.off + Usage(i))
         [] dev = "plus"  -> Rel(p.seg, p.off + Usage(i) + 1)
         [] dev = "big"   -> Rel(p.seg, p.off + 10)
         [] dev = "minus" -> Rel(p.seg, p.off - 1)
         [] dev = "seg"   -> Rel(p.seg + 20, p.off + Usage(i))
         [] OTHER         -> Felt(7)

\* The packed used pointers of frame k for declared list B: entry j belongs to
\* B[j]; entry devPos deviates by devKind (devPos = 0: none deviates).
Pack(k, B, pre, devPos, devKind) ==
    [a \in { AddOff(ids_used_builtins_addr(k), j - 1) :
               j \in { x \in 1..Len(B) : ~(x = devPos /\ devKind = "none") } }
       |-> LET j == a[2] - ids_used_builtins_addr(k)[2] + 1
           IN PackEntry(B[j], IF IndexOf(B[j]) < Len(ALL_BUILTINS)
                              THEN pre[IndexOf(B[j])]
                              ELSE Rel(BuiltinSeg(Len(ALL_BUILTINS)), 0),
                        IF j = devPos THEN devKind ELSE "ok")]

\* Builtin pointers before the first task.
FirstPre == [i \in Slots |-> Rel(BuiltinSeg(i), PreOff(i))]

\* A program without hints.
Program(builtins, data) ==
    [builtins |-> builtins, data |-> data, main |-> 0,
     hints |-> << >>, hints_ranges |-> << >>, constants |-> << >>]

InitWRB ==
    \E kind \in {"RunProgram", "CairoPieTask"}, B \in DeclaredLists,
       hole \in -1..(Len(ALL_BUILTINS) - 1), devPos \in 0..MaxDeclared,
       devKind \in DevKinds, missing \in BOOLEAN :
        /\ devPos <= Len(B)
        /\ devPos = 0 => devKind = "plus"
        /\ missing => (kind = "CairoPieTask" /\ Len(B) > 0)
        /\ tasks = << IF kind = "RunProgram"
                      THEN RunProgramTask(Program(B, <<1, 2>>), FALSE)
                      ELSE CairoPieTask(Program(B, <<1, 2>>), PieSizes(B, missing), << >>, FALSE) >>
        /\ memory = PreRecord(0, FirstPre, hole) @@ Pack(0, B, FirstPre, devPos, devKind)
        /\ exec_scopes = << ("task" :> tasks[1]) @@ ("n_builtins" :> Len(B)) >>
        /\ segment_sizes = << >>
        /\ num_segments = BuiltinSeg(Len(ALL_BUILTINS))
        /\ num_temp_segments = 0
        /\ selected = << >>
        /\ storage_reads = <<0>>
        /\ inputs = NoInputs
        /\ output_builtin = OutputInit
        /\ pc = "write_return_builtins"
        /\ cur = 0
        /\ result = Res("none", "Ok")

NextWRB == write_return_builtins_hint

SpecWRB == InitWRB /\ [][NextWRB]_vars

(***************************************************************************)
(* Spec: a run of the simple bootloader over a task list.  The steps of    *)
(* the control program between the hints (execute_tasks, execute_task of   *)
(* the compiled bootloader, not part of src/) follow spec.md 4.7; the run  *)
(* of a task is its effect on the builtin pointers and the output pages.   *)
(* set_ap_to_zero_or_one follows set_current_task (`tempvar use_poseidon = *)
(* nondet %{ 1 if task.use_poseidon else 0 %}`, simple_bootloader_hints.rs *)
(* 112-115).  The storage behind a CairoPiePath is outside the program: a  *)
(* readable artifact can stop being readable at any point of the run.      *)
(***************************************************************************)
\* The task of the current frame, loaded.
CurTask == load_task(tasks[cur + 1]).task
\* Its declared builtin list.
CurBuiltins == CurTask.program.builtins
PreCellAddr(i) == AddOff(ids_pre_execution_builtin_ptrs(cur), i)
RetCellAddr(i) == AddOff(ids_return_builtin_ptrs(cur), i)
PackCellAddr(n) == AddOff(ids_used_builtins_addr(cur), n)

\* The programs of the task pool.
fibonacci == Program(<< >>, <<5, 7>>)
printer == Program(<<"output">>, <<3>>)
field_ops == Program(<<"range_check", "bitwise">>, <<4, 6, 8>>)
recorded == Program(<<"output", "range_check">>, <<9>>)
\* A program with two hints at pc (0, 0), one at pc (0, 2), and two constants:
\* hints_ranges maps a hint pc to (start, length) in hints.
hinted ==
    [Program(<<"output">>, <<2, 4, 6>>) EXCEPT
        !.hints = <<"memory[ap] = 1", "ids.x = 2", "print(ids.x)">>,
        !.hints_ranges = (<<0, 0>> :> <<0, 2>>) @@ (<<0, 2>> :> <<2, 1>>),
        !.constants = ("a.N" :> 3) @@ ("a.M" :> 7)]

\* Output pages an artifact recorded in its additional data.
RecordedPages == << [start |-> 0, size |-> 2], [start |-> 2, size |-> 3] >>

TaskPool ==
    { RunProgramTask(fibonacci, FALSE),
      RunProgramTask(printer, FALSE),
      RunProgramTask(field_ops, TRUE),
      RunProgramTask(hinted, FALSE),
      CairoPieTask(recorded, PieSizes(recorded.builtins, FALSE), RecordedPages, FALSE),
      CairoPiePath(recorded, PieSizes(recorded.builtins, FALSE), << >>, TRUE, TRUE),
      CairoPiePath(recorded, PieSizes(recorded.builtins, FALSE), << >>, FALSE, FALSE) }

\* Labels call_task and ret_pc_label of the control program: those the comment
\* of call_task names and those of test_call_cairo_pie_task.
BootloaderIdentifiers ==
    { ("call_task" :> 278) @@ ("ret_pc_label" :> 279),
      ("call_task" :> 8) @@ ("ret_pc_label" :> 10) }

TaskLists == UNION { [1..n -> TaskPool] : n \in 1..MaxTasks }

\* insert_bootloader_input puts the input in the main scope; the control
\* program starts with its output pointer at the base of the output segment.
Init ==
    /\ tasks \in TaskLists
    /\ memory = (ids_main_output_ptr :> Rel(BuiltinSeg(0), 0))
    /\ segment_sizes = << >>
    /\ num_segments = BuiltinSeg(Len(ALL_BUILTINS))
    /\ num_temp_segments = 0
    /\ \E identifiers \in BootloaderIdentifiers :
          exec_scopes = << ("simple_bootloader_input" :> [tasks |-> tasks])
                           @@ ("bootloader_program_identifiers" :> identifiers) >>
    /\ output_builtin = OutputInit
    /\ pc = "prepare_task_range_checks"
    /\ cur = 0
    /\ result = Res("none", "Ok")
    /\ selected = << >>
    /\ storage_reads = [i \in 1..Len(tasks) |-> 0]
    /\ inputs = NoInputs

\* The builtin pointers execute_task number k is entered with: those the
\* previous task returned (the output pointer of the first task is past n_tasks).
EntryPtrs(mem, k) ==
    IF k = 0
    THEN [i \in Slots |-> IF i = 0 THEN Rel(BuiltinSeg(0), 1) ELSE FirstPre[i]]
    ELSE [i \in Slots |-> mem[AddOff(ids_return_builtin_ptrs(k - 1), i)]]

\* execute_tasks: returns when no task is left, else enters execute_task with
\* n_tasks and the output pointer in its frame.
execute_tasks ==
    /\ UNCHANGED <<storage_reads, inputs>>
    /\ Running
    /\ pc = "execute_tasks"
    /\ \/ /\ cur = Len(tasks)
          /\ pc' = "done"
          /\ UNCHANGED memory
       \/ /\ cur < Len(tasks)
          /\ memory' = (ids_n_tasks(cur) :> Felt(Len(tasks) - cur))
                          @@ (ids_output_ptr(cur) :> EntryPtrs(memory, cur)[0]) @@ memory
          /\ pc' = "set_current_task"
    /\ UNCHANGED <<tasks, segment_sizes, num_segments, num_temp_segments, exec_scopes,
                   output_builtin, cur, result, selected>>

\* The hash the control program computes over the loaded program data.
loaded_hash(mem, sizes, k) ==
    LET base == mem[ids_program_data_ptr(k)]
        words == [j \in 1..(sizes[base.seg] - 1) |-> mem[<<base.seg, base.off + j>>].off]
    IN hash_chain(<<Len(words)>> \o words)

\* execute_task between load_program_hint and validate_hash: the program hash
\* goes to output_ptr + 1 (the hash of the loaded data, another value, or the
\* cell is still unwritten), the pre-execution record is filled in, the
\* output of the task starting at output_ptr + 2.
execute_task_header ==
    /\ UNCHANGED <<storage_reads, inputs>>
    /\ Running
    /\ pc = "execute_task_header"
    /\ \E stored \in {"loaded", "other", "unwritten"} :
          LET output_ptr == memory[ids_output_ptr(cur)]
              h == loaded_hash(memory, segment_sizes, cur)
              entry == EntryPtrs(memory, cur)
              pre == [i \in Slots |-> IF i = 0 THEN Rel(output_ptr.seg, output_ptr.off + 2)
                                      ELSE entry[i]]
              hash_cell == CASE stored = "loaded" -> (<<output_ptr.seg, output_ptr.off + 1>> :> Felt(h))
                             [] stored = "other" -> (<<output_ptr.seg, output_ptr.off + 1>> :> Felt((h + 1) % FieldPrime))
                             [] OTHER -> << >>
          IN memory' = PreRecord(cur, pre, -1) @@ hash_cell @@ memory
    /\ pc' = "validate_hash"
    /\ UNCHANGED <<tasks, segment_sizes, num_segments, num_temp_segments, exec_scopes,
                   output_builtin, cur, result, selected>>

\* What a task may declare about the pages of an output of S cells: nothing,
\* two pages of 7 and S - 7 cells, a header of 2 cells and one page, or a
\* single page that leaves the end of the output uncovered.
PageChoices(S) ==
    { [pages |-> << >>, attributes |-> << >>] }
    \cup (IF S > 7
          THEN { [pages |-> << [start |-> 0, size |-> 7], [start |-> 7, size |-> S - 7] >>,
                  attributes |-> (GPS_FACT_TOPOLOGY :> <<1, 2, 3, 4>>)] }
          ELSE {})
    \cup (IF S > 3
          THEN { [pages |-> << [start |-> 2, size |-> S - 2] >>,
                  attributes |-> (GPS_FACT_TOPOLOGY :> <<2, 0>>)],
                 [pages |-> << [start |-> 0, size |-> 3] >>,
                  attributes |-> (GPS_FACT_TOPOLOGY :> <<1, 0>>)] }
          ELSE {})

\* The task runs: it leaves the used builtin pointers packed on the stack (one
\* of them possibly further than the usual usage) and, when it is a program
\* run under the bootloader, its output pages in the output builtin.
run_task ==
    /\ UNCHANGED <<storage_reads, inputs>>
    /\ Running
    /\ pc = "run_task"
    /\ \E devPos \in 0..1, devKind \in {"plus", "big"} :
          LET B == CurBuiltins
              pre == [i \in Slots |-> memory[PreCellAddr(i)]]
              pack == Pack(cur, B, pre, devPos, devKind)
              S == IF Len(B) > 0 /\ B[1] = "output"
                   THEN pack[PackCellAddr(0)].off - pre[0].off ELSE 0
          IN /\ devPos <= Len(B)
             /\ devPos = 0 => devKind = "plus"
             /\ devKind = "big" => (CurTask.kind = "RunProgram" /\ B[1] = "output")
             /\ memory' = pack @@ memory
             /\ \E ch \in PageChoices(S) :
                   IF CurTask.kind = "RunProgram"
                   THEN output_builtin' = [output_builtin EXCEPT !.pages = ch.pages,
                                                                 !.attributes = ch.attributes]
                   ELSE /\ ch.pages = << >>
                        /\ UNCHANGED output_builtin
    /\ pc' = "exit_scope_with_comments"
    /\ UNCHANGED <<tasks, segment_sizes, num_segments, num_temp_segments, exec_scopes,
                   cur, result, selected>>

\* %{ vm_exit_scope() %} after select_used_builtins
vm_exit_scope ==
    /\ UNCHANGED <<storage_reads, inputs>>
    /\ Running
    /\ pc = "select_used_builtins"
    /\ LET r == ExitScope(exec_scopes)
       IN /\ exec_scopes' = r.scopes
          /\ result' = Res("vm_exit_scope", r.res)
          /\ pc' = IF r.res = "Ok" THEN "append_fact_topologies" ELSE pc
    /\ UNCHANGED <<tasks, memory, segment_sizes, num_segments, num_temp_segments,
                   output_builtin, cur, selected>>

\* execute_task returns: execute_tasks goes on with n_tasks - 1.
execute_task_return ==
    /\ UNCHANGED <<storage_reads, inputs>>
    /\ Running
    /\ pc = "execute_task_return"
    /\ cur' = cur + 1
    /\ pc' = "execute_tasks"
    /\ UNCHANGED <<tasks, memory, segment_sizes, num_segments, num_temp_segments,
                   exec_scopes, output_builtin, result, selected>>

\* Storage: the file behind a path of the input stops being readable.
lose_artifact(spec) ==
    IF spec.kind = "CairoPiePath" THEN [spec EXCEPT !.readable = FALSE] ELSE spec

artifact_lost ==
    /\ UNCHANGED <<storage_reads, inputs>>
    /\ Running
    /\ pc \notin {"prepare_task_range_checks", "done"}
    /\ InScope(exec_scopes, "simple_bootloader_input")
    /\ LET input == ScopeGet(exec_scopes, "simple_bootloader_input")
       IN /\ \E i \in 1..Len(input.tasks) : input.tasks[i].kind = "CairoPiePath" /\ input.tasks[i].readable
          /\ exec_scopes' = ScopeInsert(exec_scopes, "simple_bootloader_input",
                                [tasks |-> [i \in 1..Len(input.tasks) |-> lose_artifact(input.tasks[i])]])
    /\ UNCHANGED <<tasks, memory, segment_sizes, num_segments, num_temp_segments,
                   output_builtin, pc, cur, result, selected>>

Next ==
    \/ prepare_task_range_checks
    \/ execute_tasks
    \/ artifact_lost
    \/ set_current_task
    \/ set_ap_to_zero_or_one
    \/ allocate_program_data_segment
    \/ load_program_hint
    \/ execute_task_header
    \/ validate_hash
    \/ call_task
    \/ run_task
    \/ exit_scope_with_comments
    \/ write_return_builtins_hint
    \/ vm_exit_scope
    \/ append_fact_topologies
    \/ execute_task_return

Spec == Init /\ [][Next]_vars

(***************************************************************************)
(* SpecIdx: set_current_task and set_ap_to_zero_or_one on every n_tasks    *)
(* from 0 to one more than the longest task list, in the frame of the      *)
(* first execute_task.                                                     *)
(***************************************************************************)
NTasksInputs == 0..(MaxTasks + 1)

InitIdx ==
    /\ tasks \in TaskLists
    /\ \E n \in NTasksInputs : memory = (ids_n_tasks(0) :> Felt(n))
    /\ segment_sizes = << >>
    /\ num_segments = BuiltinSeg(Len(ALL_BUILTINS))
    /\ num_temp_segments = 0
    /\ exec_scopes = << ("simple_bootloader_input" :> [tasks |-> tasks]) >>
    /\ output_builtin = OutputInit
    /\ pc \in {"set_current_task", "set_ap_to_zero_or_one"}
    /\ cur = 0
    /\ result = Res("none", "Ok")
    /\ selected = << >>
    /\ storage_reads = [i \in 1..Len(tasks) |-> 0]
    /\ inputs = NoInputs

NextIdx ==
    \/ set_current_task
    \/ set_ap_to_zero_or_one

SpecIdx == InitIdx /\ [][NextIdx]_vars

(***************************************************************************)
(* SpecTasks: make_bootloader_tasks on arguments drawn from bounded sets:  *)
(* each of programs, program_inputs and pies absent or a list of at most   *)
(* MaxPaths entries; a path leads to a file that can be read or cannot.    *)
(***************************************************************************)
ProgramFiles ==
    { [readable |-> TRUE, program |-> fibonacci],
      [readable |-> TRUE, program |-> printer],
      [readable |-> FALSE, program |-> fibonacci] }
ProgramInputValues == { ("n" :> 1), ("n" :> 2) }
PieFiles ==
    { [readable |-> TRUE, program |-> recorded,
       builtin_segments |-> PieSizes(recorded.builtins, FALSE), output_pages |-> RecordedPages],
      [readable |-> TRUE, program |-> printer,
       builtin_segments |-> PieSizes(printer.builtins, FALSE), output_pages |-> << >>],
      [readable |-> FALSE, program |-> recorded,
       builtin_segments |-> PieSizes(recorded.builtins, FALSE), output_pages |-> << >>] }
OptionalLists(S) == {NoList} \cup { SomeList(l) : l \in UNION { [1..n -> S] : n \in 0..MaxPaths } }

InitTasks ==
    /\ \E programs \in OptionalLists(ProgramFiles),
          program_inputs \in OptionalLists(ProgramInputValues),
          pies \in OptionalLists(PieFiles) :
          inputs = [programs |-> programs, program_inputs |-> program_inputs, pies |-> pies]
    /\ tasks = << >>
    /\ memory = << >>
    /\ segment_sizes = << >>
    /\ num_segments = 0
    /\ num_temp_segments = 0
    /\ exec_scopes = << >>
    /\ output_builtin = OutputInit
    /\ pc = "make_bootloader_tasks"
    /\ cur = 0
    /\ result = Res("none", "Ok")
    /\ selected = << >>
    /\ storage_reads = << >>

NextTasks == make_bootloader_tasks

SpecTasks == InitTasks /\ [][NextTasks]_vars

(***************************************************************************)
(* Vocabulary of the claims about write_return_builtins.                   *)
(***************************************************************************)
Declared(i) == Contains(CurBuiltins, ALL_BUILTINS[i + 1])
\* Number of declared canonical builtins before slot i.
Rank(i) == Cardinality({ j \in Slots : j < i /\ Declared(j) })
Written(a) == a \in DOMAIN memory
WrbRan == result.hook = "write_return_builtins_hint"
WrbOk == WrbRan /\ result.res = "Ok"

\* C1: after a successful write_return_builtins, every canonical slot whose
\* builtin is not in the declared list holds, in the return record, the value
\* of the pre-execution record at the same slot.
C1_UnusedSlotKeepsPreValue ==
    WrbOk => \A i \in Slots :
                ~Declared(i) => /\ Written(RetCellAddr(i))
                                /\ Written(PreCellAddr(i))
                                /\ memory[RetCellAddr(i)] = memory[PreCellAddr(i)]

\* C1 witness: a successful call for a task that declares some builtins and
\* leaves others unused.
C1_Witness ==
    /\ WrbOk
    /\ \E i, j \in Slots : Declared(i) /\ ~Declared(j)
                           /\ memory[RetCellAddr(j)] = memory[PreCellAddr(j)]
                           /\ memory[RetCellAddr(i)] # memory[PreCellAddr(i)]

\* C2: the k-th canonical builtin (k from 0) of the declared list gets the
\* k-th packed used pointer: entries are consumed in canonical order, without
\* gaps and none twice.
C2_PackedEntriesInCanonicalOrder ==
    WrbOk => \A i \in Slots :
                Declared(i) => /\ Written(RetCellAddr(i))
                               /\ Written(PackCellAddr(Rank(i)))
                               /\ memory[RetCellAddr(i)] = memory[PackCellAddr(Rank(i))]

\* C2 witness: declared {range_check, bitwise} with pack [u0, u1] gives
\* slot(range_check) = u0 and slot(bitwise) = u1, u0 # u1.
C2_Witness ==
    /\ WrbOk
    /\ CurBuiltins = <<"range_check", "bitwise">>
    /\ memory[RetCellAddr(2)] = memory[PackCellAddr(0)]
    /\ memory[RetCellAddr(4)] = memory[PackCellAddr(1)]
    /\ memory[PackCellAddr(0)] # memory[PackCellAddr(1)]

IsPie == CurTask.kind = "CairoPieTask"
\* The packed entry that the loop threads into slot i.
Threaded(i) == memory[PackCellAddr(Rank(i))]
\* The artifact records a usage size for the builtin of slot i.
Recorded(i) == ALL_BUILTINS[i + 1] \in DOMAIN CurTask.builtin_segments
RecordedSize(i) == CurTask.builtin_segments[ALL_BUILTINS[i + 1]]
\* The advance of slot i is a number: both pointers are there, in one segment.
DeltaDefined(i) ==
    /\ Written(PackCellAddr(Rank(i))) /\ Written(PreCellAddr(i))
    /\ Threaded(i).tag = "rel" /\ memory[PreCellAddr(i)].tag = "rel"
    /\ Threaded(i).seg = memory[PreCellAddr(i)].seg
Delta(i) == Threaded(i).off - memory[PreCellAddr(i)].off
\* Every cell the routine reads is there, and every advance is a number.
AllReadable ==
    \A i \in Slots : /\ Written(PreCellAddr(i))
                     /\ Declared(i) => (Recorded(i) /\ DeltaDefined(i))
AssertionFailedUsage == "AssertionFailed: Builtin usage is inconsistent with the CairoPie."

\* For a CairoPieTask, Ok only if every declared builtin advanced by its
\* recorded usage size.
PieOkOnlyIfConsistent ==
    (WrbRan /\ IsPie /\ result.res = "Ok")
        => \A i \in Slots : Declared(i) =>
              /\ Recorded(i) /\ DeltaDefined(i) /\ Delta(i) = RecordedSize(i)
              /\ memory[RetCellAddr(i)] = Threaded(i)

\* C3: for a CairoPieTask, write_return_builtins returns Ok only if every
\* declared builtin advanced by its recorded usage size, and a mismatch (with
\* every cell it reads written) ends in AssertionFailed.
C3_Original ==
    /\ PieOkOnlyIfConsistent
    /\ (WrbRan /\ IsPie /\ AllReadable
           /\ \E i \in Slots : Declared(i) /\ Delta(i) # RecordedSize(i))
          => result.res = AssertionFailedUsage

Hole(i) == ~Written(PreCellAddr(i))
\* Apart from slot i, nothing the routine reads is missing or inconsistent.
NoOtherFault(i) ==
    /\ \A j \in Slots : Declared(j) =>
          Written(PackCellAddr(Rank(j))) /\ Threaded(j).tag = "rel"
    /\ IsPie => \A j \in Slots \ {i} : Declared(j) =>
                   Recorded(j) /\ DeltaDefined(j) /\ Delta(j) = RecordedSize(j)

\* C4 as stated: an unwritten pre-execution cell at any slot, for any task
\* kind and declared list, makes the routine fail.
C4_Original ==
    WrbRan => \A i \in Slots : Hole(i) => result.res # "Ok"

\* C4 amended: an unwritten pre-execution cell makes the routine fail when its
\* builtin is not in the declared list or the task is a CairoPieTask (with
\* nothing else wrong the error is the unknown-memory-cell one); the cell of a
\* declared builtin of a RunProgramTask is not read.
C4_UnwrittenPreCellFails ==
    WrbRan => \A i \in Slots :
        (Hole(i) /\ (~Declared(i) \/ IsPie))
            => /\ result.res # "Ok"
               /\ NoOtherFault(i) => result.res = "UnknownMemoryCell"

\* C4 witness: the unwritten cell of an undeclared builtin, and of a declared
\* builtin of a CairoPieTask, each ending in the unknown-memory-cell error.
C4_Witness ==
    /\ WrbRan /\ result.res = "UnknownMemoryCell"
    /\ IsPie
    /\ \E i \in Slots : Hole(i) /\ Declared(i) /\ NoOtherFault(i)

(***************************************************************************)
(* Vocabulary of the claims about a run (Spec).                            *)
(***************************************************************************)
\* The main scope and the scope a hint of execute_task runs in.
MainScope == exec_scopes[1]
HookOk(hook) == result.hook = hook /\ result.res = "Ok"
\* ids.output_ptr of the current frame and the cell of the program hash.
OutputPtr == memory[ids_output_ptr(cur)]
StoredHashAddr == <<OutputPtr.seg, OutputPtr.off + 1>>
StoredIsInteger == Written(StoredHashAddr) /\ memory[StoredHashAddr].tag = "int"
ComputedHash == compute_program_hash_chain(CurTask.program, 0)
\* append_fact_topologies has succeeded for the current task.
AppendDone == HookOk("append_fact_topologies") /\ pc = "execute_task_return"
\* A step of the hint.
ValidateStep == Running /\ pc = "validate_hash" /\ result'.hook = "validate_hash"
AppendStep == Running /\ pc = "append_fact_topologies" /\ result'.hook = "append_fact_topologies"
\* ids.program_header of the current frame.
ProgramHeader == memory[ids_program_header(cur)]
HeaderSize == 4 + Len(CurBuiltins)
\* Output size of the task of frame k, from its two records.
OutputSizeOf(k) ==
    memory[AddOff(ids_return_builtin_ptrs(k), 0)].off
        - memory[AddOff(ids_pre_execution_builtin_ptrs(k), 0)].off
RECURSIVE SumSeq(_)
SumSeq(s) == IF Len(s) = 0 THEN 0 ELSE s[1] + SumSeq(Tail(s))

C6_ProgramAddressAndSize ==
    HookOk("load_program_hint") =>
        /\ InScope(exec_scopes, "program_address")
        /\ ScopeGet(exec_scopes, "program_address")
              = Rel(ProgramHeader.seg, ProgramHeader.off + HeaderSize)
        /\ ProgramHeader.seg \in DOMAIN segment_sizes
        /\ segment_sizes[ProgramHeader.seg] = HeaderSize + Len(CurTask.program.data)

\* C6 witness: a program of two code words and no builtins: code at header + 4,
\* segment of size 6.
C6_Witness ==
    /\ HookOk("load_program_hint")
    /\ CurBuiltins = << >> /\ Len(CurTask.program.data) = 2
    /\ ScopeGet(exec_scopes, "program_address") = Rel(ProgramHeader.seg, ProgramHeader.off + 4)
    /\ segment_sizes[ProgramHeader.seg] = 6

\* C7: a hook succeeds for task k only on what its predecessors left for task
\* k: call_task on the task selected for k and the PROGRAM_ADDRESS loaded for
\* k, write_return_builtins_hint on the N_BUILTINS of k, append_fact_topologies
\* on the OUTPUT_RUNNER_DATA of k, with one topology per task before it.
C7_HooksUseCurrentTaskValues ==
    /\ HookOk("load_program_hint") =>
          /\ selected[Len(selected)] = cur
          /\ MainScope["task"] = CurTask
          /\ MainScope["program_data_base"] = ProgramHeader
    /\ HookOk("call_task") =>
          /\ MainScope["task"] = CurTask
          /\ MainScope["program_address"] = Rel(ProgramHeader.seg, HeaderSize)
          /\ ProgramHeader.seg = num_segments - 1
                                   - (IF CurTask.kind = "CairoPieTask" THEN Len(CurBuiltins) ELSE 0)
          /\ ProgramHeader.seg \in DOMAIN segment_sizes
    /\ HookOk("write_return_builtins_hint") =>
          /\ MainScope["n_builtins"] = Len(CurBuiltins)
          /\ ScopeGet(exec_scopes, "n_selected_builtins") = Len(CurBuiltins)
    /\ AppendDone =>
          /\ MainScope["n_builtins"] = Len(CurBuiltins)
          /\ MainScope["output_runner_data"].some = (CurTask.kind = "RunProgram")
          /\ Len(MainScope["fact_topologies"]) = cur + 1

\* C7 witness: the last hook succeeds for the second task of a run whose two
\* tasks differ in kind and in the number of builtins.
C7_Witness ==
    /\ AppendDone
    /\ cur = 1
    /\ load_task(tasks[1]).task.kind # CurTask.kind
    /\ Len(load_task(tasks[1]).task.program.builtins) # Len(CurBuiltins)

\* C8: set_current_task called with remaining count n makes the task at index
\* len(tasks) - n current; over a run the tasks made current are tasks[0],
\* tasks[1], ... in list order, each once.
C8_TasksSelectedInListOrder ==
    /\ \A i \in 1..Len(selected) : selected[i] = i - 1
    /\ HookOk("set_current_task") =>
          /\ selected[Len(selected)] = Len(tasks) - memory[ids_n_tasks(cur)].off
          /\ ScopeGet(exec_scopes, "task")
                = load_task(tasks[Len(tasks) - memory[ids_n_tasks(cur)].off + 1]).task
    /\ pc = "done" => Len(selected) = Len(tasks)

\* C8 witness: a run of two different tasks ends, tasks[0] then tasks[1] having
\* been made current.
C8_Witness ==
    /\ pc = "done"
    /\ Len(tasks) = 2 /\ tasks[1] # tasks[2]
    /\ selected = <<0, 1>>
    /\ MainScope["task"] = load_task(tasks[2]).task

\* C9: a successful append_fact_topologies puts one new entry at the end of
\* the fact-topology list, the topology for output_size = return output pointer
\* - pre-execution output pointer of the current task; the list then has one
\* entry per task so far.
C9_TopologyAppendedLast ==
    [][ (AppendStep /\ result'.res = "Ok") =>
          /\ MainScope'["fact_topologies"]
                = Append(MainScope["fact_topologies"],
                         get_task_fact_topology(OutputSizeOf(cur), CurTask, output_builtin,
                                                MainScope["output_runner_data"]).fact_topology)
          /\ Len(MainScope'["fact_topologies"]) = cur + 1 ]_vars

\* C9 witness: two tasks with different outputs are done, the list has two
\* entries, entry i with the output size of task i.
C9_Witness ==
    /\ AppendDone
    /\ Len(MainScope["fact_topologies"]) = 2
    /\ OutputSizeOf(0) # OutputSizeOf(1)
    /\ \A i \in 1..2 : SumSeq(MainScope["fact_topologies"][i].page_sizes) = OutputSizeOf(i - 1)

\* C10: the page sizes of every appended fact topology, header page included,
\* sum to output_end - output_start of its task.
C10_PageSizesSumToOutputSize ==
    "fact_topologies" \in DOMAIN MainScope =>
        \A i \in 1..Len(MainScope["fact_topologies"]) :
            SumSeq(MainScope["fact_topologies"][i].page_sizes) = OutputSizeOf(i - 1)

\* C10 witness: pages of 7 and 3 cells of an output of 10 cells give the page
\* sizes 0, 7, 3.
C10_Witness ==
    /\ "fact_topologies" \in DOMAIN MainScope
    /\ \E i \in 1..Len(MainScope["fact_topologies"]) :
          /\ MainScope["fact_topologies"][i].page_sizes = <<0, 7, 3>>
          /\ OutputSizeOf(i - 1) = 10

HasTopologies == "fact_topologies" \in DOMAIN MainScope
FactTopologies == MainScope["fact_topologies"]

\* C11: once the fact-topology list exists, every step of a run keeps it, never
\* shortens it and leaves every entry at its index with its value.
C11_TopologiesOnlyGrow ==
    [][ HasTopologies =>
          /\ HasTopologies'
          /\ Len(FactTopologies') >= Len(FactTopologies)
          /\ \A i \in 1..Len(FactTopologies) : FactTopologies'[i] = FactTopologies[i] ]_vars

\* C11 witness: a run of two tasks has ended with two different entries, the
\* first one having gone through all the hooks of the second task.
C11_Witness ==
    /\ pc = "done"
    /\ HasTopologies /\ Len(FactTopologies) = 2
    /\ FactTopologies[1] # FactTopologies[2]

CallStep == Running /\ pc = "call_task" /\ result'.hook = "call_task"
CurIsPie == CurTask.kind = "CairoPieTask"

\* C12: for a CairoPieTask, a successful call_task stores None as
\* OUTPUT_RUNNER_DATA and leaves the output builtin as it was, and a successful
\* append_fact_topologies appends the single page of output_size cells with the
\* flat structure, whatever pages the artifact recorded.
C12_PieTopologyIsSinglePage ==
    [][ /\ (CallStep /\ CurIsPie /\ result'.res = "Ok") =>
              /\ MainScope'["output_runner_data"] = None
              /\ output_builtin' = output_builtin
        /\ (AppendStep /\ CurIsPie /\ result'.res = "Ok") =>
              /\ FactTopologies' = Append(FactTopologies,
                                          [tree_structure |-> DefaultTreeStructure,
                                           page_sizes |-> <<OutputSizeOf(cur)>>])
              /\ output_builtin' = output_builtin ]_vars

\* C12 witness: the topology appended for an artifact that recorded two output
\* pages is the single page of its 5 output cells.
C12_Witness ==
    /\ AppendDone /\ CurIsPie
    /\ Len(CurTask.output_pages) = 2
    /\ MainScope["output_runner_data"] = None
    /\ FactTopologies[Len(FactTopologies)].page_sizes = <<5>>
    /\ OutputSizeOf(cur) = 5

CurIsRun == CurTask.kind = "RunProgram"
OutputRunnerData == MainScope["output_runner_data"]

\* C13: for a RunProgramTask, a successful call_task stores the output builtin's
\* state as OUTPUT_RUNNER_DATA and leaves the builtin empty, based at the segment
\* of the pre-execution output pointer; a successful append_fact_topologies
\* leaves the builtin's pages and attributes equal to the stored state.
C13_OutputStateCapturedAndRestored ==
    [][ /\ (CallStep /\ CurIsRun /\ result'.res = "Ok") =>
              /\ OutputRunnerData' = Some(output_builtin)
              /\ output_builtin' = [base |-> memory[PreCellAddr(0)].seg,
                                    pages |-> << >>, attributes |-> << >>]
        /\ (AppendStep /\ CurIsRun /\ result'.res = "Ok") =>
              /\ OutputRunnerData.some
              /\ output_builtin'.pages = OutputRunnerData.state.pages
              /\ output_builtin'.attributes = OutputRunnerData.state.attributes ]_vars

\* C13 witness: a program that registered pages and a tree structure has been
\* appended and the builtin is back at the stored state, without them.
C13_Witness ==
    /\ AppendDone /\ CurIsRun
    /\ Len(FactTopologies[Len(FactTopologies)].page_sizes) > 1
    /\ FactTopologies[Len(FactTopologies)].tree_structure # DefaultTreeStructure
    /\ output_builtin.pages = << >> /\ output_builtin.attributes = << >>
    /\ output_builtin = OutputRunnerData.state

\* The task list held by the scope variable SIMPLE_BOOTLOADER_INPUT.
InputTasks == MainScope["simple_bootloader_input"].tasks
\* Loading the current task from the input fails.
CurLoadFails == load_task(InputTasks[cur + 1]).res # "Ok"
SetCurrentStep == Running /\ pc = "set_current_task" /\ result'.hook = "set_current_task"
SetApStep == Running /\ pc = "set_ap_to_zero_or_one" /\ result'.hook = "set_ap_to_zero_or_one"

\* C14 as stated: a hint that meets a failure ends with an error.  The hints
\* that load the task (set_current_task, set_ap_to_zero_or_one) end with an
\* error when the task cannot be loaded, and validate_hash does when the stored
\* hash is missing, not an integer or different from the computed one.
C14_Original ==
    [][ /\ (SetCurrentStep /\ CurLoadFails)
              => result'.res # "Ok"
        /\ (SetApStep /\ CurLoadFails)
              => result'.res # "Ok"
        /\ (ValidateStep
               /\ (~StoredIsInteger \/ memory[StoredHashAddr].off # ComputedHash))
              => result'.res # "Ok" ]_vars

\* What an error delivered to the run driver consists of: the variant of
\* HintError and its payload.
ErrorComponents(res) ==
    IF res = "CustomHint: Task not found" THEN {"CustomHint", "Task not found"} ELSE {res}
\* set_current_task has failed on loading the current task.
LoadFailureDelivered ==
    /\ pc = "set_current_task" /\ result.hook = "set_current_task"
    /\ result.res # "Ok" /\ CurLoadFails

\* C15 as stated: when loading the task at index i fails, the error delivered
\* names the index i and carries the error load_task failed with.
C15_Original ==
    LoadFailureDelivered =>
        /\ ToString(cur) \in ErrorComponents(result.res)
        /\ load_task(InputTasks[cur + 1]).res \in ErrorComponents(result.res)

\* C16 as stated: the artifact of a CairoPiePath task is read from storage at
\* most once in a run, and once as soon as set_current_task has selected the
\* task; the later hints of the task do not read it again.
C16_Original ==
    \A i \in 1..Len(tasks) :
        tasks[i].kind = "CairoPiePath" =>
            /\ storage_reads[i] <= 1
            /\ Contains(selected, i - 1) => storage_reads[i] = 1

\* C17: load_task of a RunProgram or CairoPieTask entry gives that task; of a
\* readable CairoPiePath it gives a CairoPieTask of the path's artifact with the
\* path's use_poseidon; loading the result again gives the same; and the entries
\* of the input stay the TaskSpecs they were (only the storage behind a path
\* can change), whatever hint has loaded them.
C17_LoadTaskIdempotent ==
    /\ Len(InputTasks) = Len(tasks)
    /\ \A i \in 1..Len(InputTasks) :
          LET spec == InputTasks[i]
              l == load_task(spec)
          IN /\ spec.kind \in {"RunProgram", "CairoPieTask"} => l = [res |-> "Ok", task |-> spec]
             /\ (spec.kind = "CairoPiePath" /\ l.res = "Ok") =>
                   /\ l.task.kind = "CairoPieTask"
                   /\ l.task.use_poseidon = spec.use_poseidon
                   /\ l.task.program = spec.program
                   /\ l.task.builtin_segments = spec.builtin_segments
             /\ l.res = "Ok" => load_task(l.task) = l
             /\ [spec EXCEPT !.readable = tasks[i].readable] = tasks[i]
    /\ (pc = "set_ap_to_zero_or_one" /\ HookOk("set_current_task")) =>
          /\ load_task(MainScope["task"]) = [res |-> "Ok", task |-> MainScope["task"]]
          /\ MainScope["task"].use_poseidon = tasks[cur + 1].use_poseidon
          /\ MainScope["task"].program = tasks[cur + 1].program

\* C17 witness: set_current_task has loaded a CairoPiePath with use_poseidon
\* set; TASK is the CairoPieTask with the flag, the input entry is still the path.
C17_Witness ==
    /\ pc = "set_ap_to_zero_or_one" /\ HookOk("set_current_task")
    /\ InputTasks[cur + 1].kind = "CairoPiePath" /\ InputTasks[cur + 1].use_poseidon
    /\ MainScope["task"].kind = "CairoPieTask" /\ MainScope["task"].use_poseidon

CallDone == HookOk("call_task") /\ pc = "run_task"
Identifiers == get_bootloader_identifiers(exec_scopes).val
\* The cells that end the initial frame of the artifact placed at ap - n_builtins.
RetFpCell == <<vm_get_ap(cur).seg, (vm_get_ap(cur).off - Len(CurBuiltins)) + Len(CurBuiltins)>>
RetPcCell == AddOff(RetFpCell, 1)

\* C18 as stated: after call_task for a CairoPieTask the artifact's frame at
\* ap - n_builtins returns to fp and to
\* pc + (offset of ret_pc_label - offset of call_task).
C18_Original ==
    (CallDone /\ CurIsPie) =>
        /\ Written(RetFpCell) /\ memory[RetFpCell] = vm_get_fp(cur)
        /\ Written(RetPcCell)
        /\ memory[RetPcCell] =
              Rel(vm_get_pc(Identifiers["call_task"]).seg,
                  vm_get_pc(Identifiers["call_task"]).off
                     + (get_identifier(Identifiers, "ret_pc_label").val
                          - get_identifier(Identifiers, "call_task").val))

ProgramAddress == MainScope["program_address"]
\* A hint pc of the task program, moved by the program address.
Rebased(hint_pc) == <<hint_pc[1] + ProgramAddress.seg, hint_pc[2] + ProgramAddress.off>>
HintsRanges == CurTask.program.hints_ranges

\* C19: the hint extension a successful call_task returns for a RunProgramTask
\* has as keys exactly the hint pcs of the task program moved by PROGRAM_ADDRESS;
\* a key holds the compiled hints of its pc, as many and in the order of the
\* program, and all constants of the program; for a program without hints and
\* for a CairoPieTask the extension is empty.
C19_HintExtensionRebased ==
    CallDone =>
        IF CurIsRun
        THEN /\ DOMAIN result.hint_extension = { Rebased(hint_pc) : hint_pc \in DOMAIN HintsRanges }
             /\ \A hint_pc \in DOMAIN HintsRanges :
                   LET data == result.hint_extension[Rebased(hint_pc)]
                       first == HintsRanges[hint_pc][1]
                       count == HintsRanges[hint_pc][2]
                   IN /\ Len(data.hints) = count
                      /\ \A j \in 1..count :
                            data.hints[j] = compile_hint(CurTask.program.hints[first + j])
                      /\ data.constants = CurTask.program.constants
        ELSE DOMAIN result.hint_extension = {}

\* C19 witness: call_task has returned, for the program with hints at (0, 0) and
\* (0, 2) loaded at an address with a non-zero segment and offset, an extension
\* of two keys, one of them holding two hints.
C19_Witness ==
    /\ CallDone /\ CurIsRun
    /\ ProgramAddress.seg > 0 /\ ProgramAddress.off > 0
    /\ Cardinality(DOMAIN result.hint_extension) = 2
    /\ Len(result.hint_extension[Rebased(<<0, 0>>)].hints) = 2
    /\ DOMAIN result.hint_extension[Rebased(<<0, 2>>)].constants = {"a.N", "a.M"}

\* The return cell of slot i is a pointer into the segment of the slot's
\* pre-execution pointer, at an offset that is not smaller.
NotBackwards(i) ==
    /\ Written(RetCellAddr(i))
    /\ memory[RetCellAddr(i)].tag = "rel"
    /\ memory[RetCellAddr(i)].seg = memory[PreCellAddr(i)].seg
    /\ memory[RetCellAddr(i)].off >= memory[PreCellAddr(i)].off

\* C20 as stated: after write_return_builtins, for a task of any kind, the
\* return pointer of every slot whose pre-execution pointer exists is in the
\* segment of that pointer and not below it.
C20_Original ==
    WrbOk => \A i \in Slots : Written(PreCellAddr(i)) => NotBackwards(i)

\* C20 amended: the return pointer is in the segment of the pre-execution
\* pointer and not below it for every slot of a CairoPieTask and for every slot
\* whose builtin the task does not declare.
C20_ReturnPointersNotBackwards ==
    WrbOk => \A i \in Slots :
                (IsPie \/ ~Declared(i)) => (Written(PreCellAddr(i)) /\ NotBackwards(i))

\* C20 witness: write_return_builtins has succeeded for an artifact of two
\* declared builtins; a declared slot has advanced, an undeclared one has not.
C20_Witness ==
    /\ WrbOk /\ IsPie /\ Len(CurBuiltins) = 2
    /\ \E i \in Slots : Declared(i) /\ memory[RetCellAddr(i)].off > memory[PreCellAddr(i)].off
    /\ \E i \in Slots : ~Declared(i) /\ memory[RetCellAddr(i)] = memory[PreCellAddr(i)]

\* Where the execution segment of the artifact was placed: ap - n_builtins.
ExecBase == <<vm_get_ap(cur).seg, vm_get_ap(cur).off - Len(CurBuiltins)>>
\* The new base of the segment of declared builtin number j (from 0): what the
\* initial frame of the placed artifact points to.
NewBuiltinBase(j) == memory[AddOff(ExecBase, j)]
PlacedSegments ==
    {ProgramAddress.seg, ExecBase[1]}
        \cup { NewBuiltinBase(j).seg : j \in 0..(Len(CurBuiltins) - 1) }

\* C21: after call_task has placed an artifact, its program segment, its
\* execution segment and its builtin segments are in pairwise different
\* segments, and the pointers among the placed cells are moved by the offset of
\* the segment they point into: the pointer to program cell 1 points to
\* PROGRAM_ADDRESS + 1, the pointer to cell 1 of the first builtin segment to
\* the new base of that segment + 1, and the plain value is unchanged.
C21_RebasingInjective ==
    (CallDone /\ CurIsPie) =>
        LET n == Len(CurBuiltins)
        IN /\ \A j \in 0..(n + 2) : Written(AddOff(ExecBase, j))
           /\ \A j \in 0..(n - 1) : NewBuiltinBase(j).tag = "rel" /\ NewBuiltinBase(j).off = 0
           /\ Cardinality(PlacedSegments) = n + 2
           /\ memory[AddOff(ExecBase, n + 2)]
                 = Rel(ProgramAddress.seg, ProgramAddress.off + CurTask.program.main + 1)
           /\ n > 0 =>
                 /\ Written(AddOff(ExecBase, n + 3))
                 /\ memory[AddOff(ExecBase, n + 3)]
                       = Rel(NewBuiltinBase(0).seg, NewBuiltinBase(0).off + 1)
                 /\ Written(AddrOf(NewBuiltinBase(0)))
                 /\ memory[AddrOf(NewBuiltinBase(0))] = Felt(CurTask.program.data[1])

\* C21 witness: an artifact with two builtin segments has been placed at a
\* program address with a non-zero offset; the two segments have different
\* new bases.
C21_Witness ==
    /\ CallDone /\ CurIsPie /\ Len(CurBuiltins) = 2
    /\ ProgramAddress.off > 0
    /\ NewBuiltinBase(0).seg # NewBuiltinBase(1).seg
    /\ Cardinality(PlacedSegments) = 4

SetApDone == HookOk("set_ap_to_zero_or_one") /\ pc = "allocate_program_data_segment"

\* C22 as stated: after set_ap_to_zero_or_one for a task that can be loaded,
\* memory[ap] is 1 if the task's use_poseidon flag is set and 0 otherwise,
\* whatever the variant of the task.
C22_Original ==
    (SetApDone /\ ~CurLoadFails) =>
        /\ Written(ap_use_poseidon(cur))
        /\ memory[ap_use_poseidon(cur)] = Felt(IF tasks[cur + 1].use_poseidon THEN 1 ELSE 0)

PrepareStep ==
    /\ Running /\ pc = "prepare_task_range_checks"
    /\ result'.hook = "prepare_task_range_checks"

WrbStep ==
    /\ Running /\ pc = "write_return_builtins"
    /\ result'.hook = "write_return_builtins_hint"

\* C24: a successful write_return_builtins_hint pushes exactly one scope on the
\* scope stack, the scopes below are as before, and the new scope holds the one
\* variable n_selected_builtins, equal to N_BUILTINS of the scope the hint ran
\* in, the number of builtins the task program declares.
C24_NewScopeHoldsNSelectedBuiltins ==
    [][ (WrbStep /\ result'.res = "Ok") =>
          /\ Len(exec_scopes') = Len(exec_scopes) + 1
          /\ SubSeq(exec_scopes', 1, Len(exec_scopes)) = exec_scopes
          /\ DOMAIN LocalVariables(exec_scopes') = {"n_selected_builtins"}
          /\ ScopeGet(exec_scopes', "n_selected_builtins") = ScopeGet(exec_scopes, "n_builtins")
          /\ ScopeGet(exec_scopes', "n_selected_builtins") = Len(CurBuiltins) ]_vars

\* C24 witness: the hint has succeeded in a run for a program of two declared
\* builtins, N_BUILTINS having been stored by call_task.
C24_Witness ==
    /\ HookOk("write_return_builtins_hint") /\ pc = "select_used_builtins"
    /\ Len(exec_scopes) = 2
    /\ exec_scopes[2] = ("n_selected_builtins" :> 2)
    /\ MainScope["n_builtins"] = 2
    /\ Len(selected) = cur + 1

AllocateStep ==
    /\ Running /\ pc = "allocate_program_data_segment"
    /\ result'.hook = "allocate_program_data_segment"

\* C25: allocate_program_data_segment adds exactly one memory segment, and
\* ids.program_data_ptr and the scope variable PROGRAM_DATA_BASE both become
\* offset 0 of that segment, whose index no existing segment and no written
\* cell had before the call.
C25_AllocatesOneFreshSegment ==
    [][ AllocateStep =>
          /\ num_segments' = num_segments + 1
          /\ result'.res = "Ok"
          /\ ids_program_data_ptr(cur) \in DOMAIN memory'
          /\ memory'[ids_program_data_ptr(cur)] = Rel(num_segments, 0)
          /\ ScopeGet(exec_scopes', "program_data_base") = Rel(num_segments, 0)
          /\ \A a \in DOMAIN memory : a[1] # num_segments
          /\ \A a \in DOMAIN memory : memory[a].tag = "rel" => memory[a].seg # num_segments ]_vars

\* C25 witness: the segment has been allocated for the second task, after the
\* first task's segments were added.
C25_Witness ==
    /\ HookOk("allocate_program_data_segment") /\ pc = "load_program"
    /\ cur = 1
    /\ Written(ids_program_data_ptr(cur)) /\ Written(ids_program_data_ptr(0))
    /\ memory[ids_program_data_ptr(cur)] = Rel(num_segments - 1, 0)
    /\ memory[ids_program_data_ptr(0)].seg < num_segments - 1

\* The packed entry of declared slot i can be read as a pointer.
PackReadable(i) == Written(PackCellAddr(Rank(i))) /\ Threaded(i).tag = "rel"
\* Slot i fails before its return cell is written: its source cell is missing
\* (or, for a packed entry, is not a pointer).
ReadFault(i) == IF Declared(i) THEN ~PackReadable(i) ELSE Hole(i)
\* Slot i fails in the usage check of a CairoPieTask, after its return cell
\* was written.
UsageFault(i) ==
    /\ IsPie /\ Declared(i) /\ PackReadable(i)
    /\ ~(Recorded(i) /\ DeltaDefined(i) /\ Delta(i) = RecordedSize(i))
SlotFault(i) == ReadFault(i) \/ UsageFault(i)

\* C26: when write_return_builtins_hint fails, it fails at the first canonical
\* slot i with a fault; every memory cell written before the call is as it
\* was, the return cells of the slots before i are written (and that of slot
\* i when the failure is the usage check), no return cell of a later slot is
\* written, and the scope stack is the same as before the call.
C26_NoPartialRollback ==
    [][ (WrbStep /\ result'.res # "Ok") =>
          /\ exec_scopes' = exec_scopes
          /\ \A a \in DOMAIN memory : a \in DOMAIN memory' /\ memory'[a] = memory[a]
          /\ \E i \in Slots :
                /\ SlotFault(i) /\ \A j \in Slots : j < i => ~SlotFault(j)
                /\ \A j \in Slots : j < i =>
                      /\ RetCellAddr(j) \in DOMAIN memory'
                      /\ memory'[RetCellAddr(j)] = IF Declared(j) THEN Threaded(j)
                                                   ELSE memory[PreCellAddr(j)]
                /\ UsageFault(i) => /\ RetCellAddr(i) \in DOMAIN memory'
                                    /\ memory'[RetCellAddr(i)] = Threaded(i)
                /\ ReadFault(i) => RetCellAddr(i) \notin DOMAIN memory'
                /\ \A j \in Slots : j > i => RetCellAddr(j) \notin DOMAIN memory' ]_vars

\* C26 witness: a CairoPieTask whose second declared builtin (slot 2) fails the
\* usage check: the return cells of slots 0, 1 and 2 are written, no later one,
\* and the scope stack has its one scope without n_selected_builtins.
C26_Witness ==
    /\ WrbRan /\ result.res = AssertionFailedUsage /\ IsPie
    /\ Declared(0) /\ Declared(2) /\ UsageFault(2) /\ ~SlotFault(0) /\ ~SlotFault(1)
    /\ \A j \in Slots : Written(RetCellAddr(j)) <=> j <= 2
    /\ Len(exec_scopes) = 1 /\ ~InScope(exec_scopes, "n_selected_builtins")

ReturnCells == { RetCellAddr(i) : i \in Slots }

\* C27: a successful write_return_builtins gives insert_value the 11 addresses
\* return_builtins_addr + 0 .. + 10, each once; these 11 cells, unwritten
\* before, are the only cells the call adds to the memory, and every cell
\* written before the call (the pre-execution record and the packed used
\* pointers among them) holds the value it held.
C27_WritesExactlyTheReturnRecord ==
    [][ (WrbStep /\ result'.res = "Ok") =>
          /\ result'.written = [n \in 1..Len(ALL_BUILTINS) |-> RetCellAddr(n - 1)]
          /\ ReturnCells \cap DOMAIN memory = {}
          /\ DOMAIN memory' = DOMAIN memory \cup ReturnCells
          /\ \A a \in DOMAIN memory : memory'[a] = memory[a]
          /\ \A i \in Slots : Written(PreCellAddr(i)) =>
                memory'[PreCellAddr(i)] = memory[PreCellAddr(i)]
          /\ \A n \in 0..(Len(CurBuiltins) - 1) : Written(PackCellAddr(n)) =>
                memory'[PackCellAddr(n)] = memory[PackCellAddr(n)] ]_vars

\* C27 witness: a successful call for two declared builtins: 11 addresses
\* written, the return record complete, the two packed entries in place.
C27_Witness ==
    /\ WrbOk /\ Len(CurBuiltins) = 2
    /\ Len(result.written) = 11
    /\ \A i \in Slots : Written(RetCellAddr(i)) /\ Written(PreCellAddr(i))
    /\ Written(PackCellAddr(0)) /\ Written(PackCellAddr(1))

\* The declared builtins are pairwise different and all canonical.
DistinctCanonical(B) ==
    /\ \A a, b \in 1..Len(B) : a # b => B[a] # B[b]
    /\ Range(B) \subseteq Range(ALL_BUILTINS)
NSelectedBuiltins == ScopeGet(exec_scopes, "n_selected_builtins")

\* C28 as stated: after a successful write_return_builtins_hint the number of
\* packed entries consumed equals n_selected_builtins, for every declared list.
C28_Original ==
    WrbOk => result.consumed = NSelectedBuiltins

\* C28 amended: the number of packed entries consumed is the number of
\* different canonical builtins in the declared list; it equals
\* n_selected_builtins (the length of the list) exactly when the declared
\* builtins are pairwise different and all among the 11 canonical ones, and
\* is smaller otherwise.
C28_ConsumedIsCanonicalCount ==
    WrbOk =>
        /\ NSelectedBuiltins = Len(CurBuiltins)
        /\ result.consumed = Cardinality(Range(CurBuiltins) \cap Range(ALL_BUILTINS))
        /\ DistinctCanonical(CurBuiltins) => result.consumed = NSelectedBuiltins
        /\ ~DistinctCanonical(CurBuiltins) => result.consumed < NSelectedBuiltins

\* C28 witness: successful calls consumed both entries of a list of two
\* canonical builtins given out of canonical order.
C28_Witness ==
    /\ WrbOk /\ CurBuiltins = <<"bitwise", "range_check">>
    /\ result.consumed = 2 /\ NSelectedBuiltins = 2

\* ids.n_tasks as the hint reads it.
NTasks == memory[ids_n_tasks(cur)].off
NTasksInBounds == 1 <= NTasks /\ NTasks <= Len(InputTasks)

\* C29: set_current_task and set_ap_to_zero_or_one succeed only when
\* 1 <= n_tasks <= len(tasks); for n_tasks = 0 or n_tasks > len(tasks) the
\* invocation fails, no task is loaded or selected, memory (memory[ap]
\* included) and the scopes (TASK included) are as before.
C29_TaskIndexInBounds ==
    [][ ((SetCurrentStep \/ SetApStep) /\ Written(ids_n_tasks(cur)))
          => /\ result'.res = "Ok" => NTasksInBounds
             /\ ~NTasksInBounds =>
                   /\ result'.res # "Ok"
                   /\ memory' = memory
                   /\ ap_use_poseidon(cur) \notin DOMAIN memory'
                   /\ exec_scopes' = exec_scopes
                   /\ ~InScope(exec_scopes', "task")
                   /\ selected' = selected
                   /\ storage_reads' = storage_reads ]_vars

\* C29 witness: set_current_task has failed for n_tasks = len(tasks) + 1, with
\* no task in the scope and no task read.
C29_Witness ==
    /\ result.hook = "set_current_task" /\ result.res # "Ok"
    /\ Written(ids_n_tasks(cur)) /\ NTasks = Len(InputTasks) + 1
    /\ ~InScope(exec_scopes, "task")
    /\ selected = << >>
    /\ \A i \in 1..Len(tasks) : storage_reads[i] = 0

MadeTasks == result.hook = "make_bootloader_tasks"
\* The programs that are turned into tasks: those given, when program_inputs
\* is given too.
GivenPrograms ==
    IF inputs.programs.some /\ inputs.program_inputs.some THEN inputs.programs.val ELSE << >>
GivenPies == IF inputs.pies.some THEN inputs.pies.val ELSE << >>
LengthsAgree ==
    (inputs.programs.some /\ inputs.program_inputs.some)
        => Len(inputs.programs.val) = Len(inputs.program_inputs.val)
SomeFileUnreadable ==
    \/ \E i \in 1..Len(GivenPrograms) : ~GivenPrograms[i].readable
    \/ \E j \in 1..Len(GivenPies) : ~GivenPies[j].readable

\* C30: on success make_bootloader_tasks returns |programs| + |pies| tasks:
\* first the program tasks in the order given, the i-th with the i-th program
\* and the i-th program input, then the PIE tasks in the order given, every
\* task with use_poseidon = false; programs become tasks only when
\* program_inputs is given too, the two of equal length; and when a program or
\* a PIE cannot be loaded the call returns an error and no task list.
C30_MakeBootloaderTasks ==
    MadeTasks =>
        /\ result.res = "Ok" =>
              /\ LengthsAgree
              /\ Len(tasks) = Len(GivenPrograms) + Len(GivenPies)
              /\ \A i \in 1..Len(GivenPrograms) :
                    /\ tasks[i].kind = "RunProgram"
                    /\ tasks[i].program = GivenPrograms[i].program
                    /\ tasks[i].program_input = inputs.program_inputs.val[i]
                    /\ tasks[i].use_poseidon = FALSE
              /\ \A j \in 1..Len(GivenPies) :
                    LET t == tasks[Len(GivenPrograms) + j]
                    IN /\ t.kind = "CairoPieTask"
                       /\ t.program = GivenPies[j].program
                       /\ t.builtin_segments = GivenPies[j].builtin_segments
                       /\ t.output_pages = GivenPies[j].output_pages
                       /\ t.use_poseidon = FALSE
        /\ (LengthsAgree /\ SomeFileUnreadable) =>
              /\ result.res \in {"Program", "Pie"}
              /\ tasks = << >>
        /\ (LengthsAgree /\ ~SomeFileUnreadable) => result.res = "Ok"

\* C30 witness: two programs with their inputs and two PIEs gave four tasks,
\* the programs first; the two programs, the two inputs and the two PIEs differ.
C30_Witness ==
    /\ MadeTasks /\ result.res = "Ok"
    /\ Len(GivenPrograms) = 2 /\ Len(GivenPies) = 2 /\ Len(tasks) = 4
    /\ GivenPrograms[1] # GivenPrograms[2] /\ GivenPies[1] # GivenPies[2]
    /\ inputs.program_inputs.val[1] # inputs.program_inputs.val[2]
    /\ tasks[1].program = GivenPrograms[1].program
    /\ tasks[4].program = GivenPies[2].program

====
